---- MODULE Spec2Model ----
(***************************************************************************)
(* Nintendo MP3 Player (src/src/gba/nmp.cpp): the register interface       *)
(* (write_nmp, read_nmp), the command dispatcher (process_nmp_cmd) and the *)
(* virtual SD responder (access_nmp_io), as a state machine.               *)
(*                                                                         *)
(* Bytes are integers 0..255, strings are sequences of bytes, C arrays and *)
(* vectors are sequences (index i of the code is index i+1 here).          *)
(***************************************************************************)
EXTENDS Integers, Sequences, FiniteSets, TLC

VARIABLES play_yan, ext_audio, reg_if, fault, halted, bus, result

vars == <<play_yan, ext_audio, reg_if, fault, halted, bus, result>>

\* ------------------------------------------------------------------ bounds

MaxStream == 8          \* longest command stream the guest writes
MaxEntryCount == 5      \* list cursor values explored
MaxPolls == 4           \* 0x10F polls explored (nmp_ticks = 6 * polls)
BrowsePolls == 2        \* 0x10F polls of the browsing and register specifications
TrackPolls == 3         \* 0x10F polls of the track specification
MaxFirmwareWrites == 1  \* firmware bytes stored
MaxSeekCount == 11      \* SEEK commands counted
FewSeeks == 3           \* SEEK commands of the playback specifications
MaxSampleIndex == 2400  \* playback cursor values explored
MaxFrames == 6          \* audio chunks counted
MaxReadIndex == 17      \* data-out cursor values explored inside a block
MaxDirLen == 5          \* longest current_dir a SET_DIR still extends

\* ------------------------------------------------- protocol constants

PLAY_YAN_INIT == "INIT"
PLAY_YAN_BOOT_SEQUENCE == "BOOT_SEQUENCE"
PLAY_YAN_WAIT == "WAIT"
PLAY_YAN_PROCESS_CMD == "PROCESS_CMD"
PLAY_YAN_GET_SD_DATA == "GET_SD_DATA"

\* Register addresses, as offsets from PY_NMP_CNT.
PY_NMP_CNT == 0
PY_NMP_PARAMETER == 2
PY_NMP_DATA_IN == 4
PY_NMP_DATA_OUT == 6

NMP_START_FILE_LIST == 16
NMP_CONTINUE_FILE_LIST == 17
NMP_SET_DIR == 32
NMP_GET_ID3_DATA == 64
NMP_PLAY_MUSIC == 80
NMP_STOP_MUSIC == 81
NMP_PAUSE == 82
NMP_RESUME == 83
NMP_SEEK == 96
NMP_SET_VOLUME == 128
NMP_PLAY_SFX == 512
NMP_CHECK_FIRMWARE_FILE == 768
NMP_READ_FIRMWARE_FILE == 769
NMP_CLOSE_FIRMWARE_FILE == 771
NMP_SLEEP == 1280
NMP_WAKE == 1281
NMP_INIT == 32769
NMP_UPDATE_AUDIO == 33024
NMP_HEADPHONE_STATUS == 34304

StatusLen == 16         \* nmp_status_data[16]
ListBlockLen == 528
Id3BlockLen == 272
SpeakerRate == 16384
AudioBufferSize == 1152 \* 0x480
BootDelay == 30
FullVolume == 46         \* play_yan.volume / 46.0
FullOutput == 63         \* * 63.0
FirmwareSize == 1048576

Slash == 47
Dot == 46

Byte == 0..255

\* ------------------------------------------------------- integer helpers

Hi(w) == (w \div 256) % 256
Lo(w) == w % 256
\* u32 arithmetic: every value of the model stays below 2^31 within the bounds
\* (the guest's parameter bytes are below 0x40), where it does not wrap.
\* access_param <<= 16 keeps the low half only.
Shl16(p) == (p % 65536) * 65536
Min(a, b) == IF a < b THEN a ELSE b

Zeros(n) == [i \in 1..n |-> 0]

\* v[i] = b for the 0-based index i of the code
Put(v, i, b) == [v EXCEPT ![i + 1] = b]

\* ------------------------------------------------ external collaborators

\* util::get_folders_in_dir / util::get_files_in_dir over a fixed host tree:
\*   /m        folders a      files b, c
\*   /m/a      folders (none) files b
\*   any other directory is empty.
RootDir == <<Slash, 109>>
DirA == <<Slash, 109, Slash, 97>>

get_folders_in_dir(dir) == IF dir = RootDir THEN << <<97>> >> ELSE << >>

get_files_in_dir(dir) ==
  IF dir = RootDir THEN << <<98>>, <<99>> >>
  ELSE IF dir = DirA THEN << <<98>> >>
  ELSE << >>

\* play_yan_get_id3_data followed by util::make_ascii_printable
Id3Title(dir, file) == IF file = <<98>> THEN <<84>> ELSE << >>
Id3Artist(dir, file) == IF file = <<98>> THEN <<65, 66>> ELSE << >>

\* Decoded PCM: sample i of the loaded buffer, a signed 16-bit value.
PcmSample(i) == ((i * 4099 + 777) % 65536) - 32768

\* play_yan_load_audio: the track a path decodes to, or a failure.
TrackOf(dir, file) ==
  IF file = <<98>> /\ dir \in {RootDir, DirA}
  THEN [ok |-> TRUE, rate |-> 32768, channels |-> 2, length |-> 262144, music_length |-> 3]
  ELSE IF file = <<99>> /\ dir = RootDir
  THEN [ok |-> TRUE, rate |-> 16384, channels |-> 1, length |-> 65536, music_length |-> 3]
  ELSE [ok |-> FALSE, rate |-> 0, channels |-> 0, length |-> 0, music_length |-> 0]

SfxTrack == [ok |-> TRUE, rate |-> 16384, channels |-> 1, length |-> 4096, music_length |-> 1]

play_yan_load_audio(M, t) ==
  [M EXCEPT !.py.audio_sample_rate = t.rate,
            !.py.audio_channels = t.channels,
            !.py.music_length = IF t.ok THEN t.music_length ELSE M.py.music_length,
            !.ea.length = t.length]

\* ------------------------------------------------------ command parsing

\* for(u32 x = 3; x < command_stream.size(); x += 2): the name in the stream
RECURSIVE ParseNameFrom(_, _)
ParseNameFrom(cs, x) ==
  IF x >= Len(cs) THEN << >>
  ELSE LET chr == cs[x + 1] IN
       IF chr = 0 THEN << >>
       ELSE IF x = 3 /\ chr \in {1, 2} THEN ParseNameFrom(cs, x + 2)
       ELSE <<chr>> \o ParseNameFrom(cs, x + 2)

ParseName(cs) == ParseNameFrom(cs, 3)

\* current_dir.back() / pop_back() until a '/' was read, then one more
\* pop_back(). uf: back() or pop_back() was called on an empty string.
RECURSIVE PopToParent(_)
PopToParent(dir) ==
  IF dir = << >> THEN [dir |-> << >>, uf |-> TRUE]
  ELSE IF dir[Len(dir)] = Slash THEN [dir |-> SubSeq(dir, 1, Len(dir) - 1), uf |-> FALSE]
  ELSE PopToParent(SubSeq(dir, 1, Len(dir) - 1))

ListDone(py) == py.nmp_entry_count >= Len(py.music_files) + Len(py.folders)

ResetSeek(py) == [py EXCEPT !.nmp_seek_pos = 0, !.nmp_seek_dir = 255, !.nmp_seek_count = 0]

Tagged(M, op) == [M EXCEPT !.py.nmp_cmd_status = op + 16384, !.py.nmp_valid_command = TRUE]

\* ---------------------------------------------------- process_nmp_cmd cases

case_NMP_START_FILE_LIST(M) ==
  LET M1 == Tagged(M, NMP_START_FILE_LIST)
      p1 == [M1.py EXCEPT !.nmp_entry_count = 0,
                          !.folders = get_folders_in_dir(M.py.current_dir),
                          !.music_files = get_files_in_dir(M.py.current_dir)]
      p2 == IF ListDone(p1)
            THEN [p1 EXCEPT !.nmp_status_data = Put(Put(@, 2, 0), 3, 1)]
            ELSE p1
  IN [M1 EXCEPT !.py = [p2 EXCEPT !.nmp_entry_count = @ + 1]]

case_NMP_CONTINUE_FILE_LIST_stops_at_end(M) ==
  LET M1 == Tagged(M, NMP_CONTINUE_FILE_LIST)
  IN IF ListDone(M1.py)
     THEN [M1 EXCEPT !.py.nmp_status_data = Put(Put(@, 2, 0), 3, 1)]
     ELSE [M1 EXCEPT !.py.nmp_entry_count = @ + 1]

case_NMP_CONTINUE_FILE_LIST(M) ==
  LET M1 == Tagged(M, NMP_CONTINUE_FILE_LIST)
      p2 == IF ListDone(M1.py)
            THEN [M1.py EXCEPT !.nmp_status_data = Put(Put(@, 2, 0), 3, 1)]
            ELSE M1.py
  IN [M1 EXCEPT !.py = [p2 EXCEPT !.nmp_entry_count = @ + 1]]

case_NMP_SET_DIR(M) ==
  LET M1 == Tagged(M, NMP_SET_DIR)
      new_dir == ParseName(M.py.command_stream)
      up == PopToParent(M.py.current_dir)
  IN IF new_dir = <<Dot, Dot>>
     THEN [M1 EXCEPT !.py.current_dir = up.dir,
                     !.fault = IF up.uf THEN "string_underflow" ELSE @]
     ELSE IF new_dir # << >>
     THEN [M1 EXCEPT !.py.current_dir = @ \o <<Slash>> \o new_dir]
     ELSE M1

case_NMP_GET_ID3_DATA(M) ==
  LET M1 == Tagged(M, NMP_GET_ID3_DATA)
      file == ParseName(M.py.command_stream)
  IN [M1 EXCEPT !.py.current_music_file = file,
                !.py.nmp_status_data = Put(Put(@, 6, 1), 7, 1),
                !.py.nmp_title = Id3Title(M.py.current_dir, file),
                !.py.nmp_artist = Id3Artist(M.py.current_dir, file)]

case_NMP_PLAY_MUSIC(M) ==
  LET M1 == Tagged(M, NMP_PLAY_MUSIC)
      file == ParseName(M.py.command_stream)
      p1 == [ResetSeek(M1.py) EXCEPT
               !.is_music_playing = TRUE, !.is_media_playing = TRUE,
               !.audio_sample_index = 0,
               !.l_audio_dither_error = 0, !.r_audio_dither_error = 0,
               !.tracker_update_size = 0,
               !.current_music_file = file]
      p2 == IF M.ea.use_headphones
            THEN [p1 EXCEPT !.update_audio_stream = FALSE,
                            !.update_trackbar_timestamp = TRUE,
                            !.nmp_manual_cmd = 33024,
                            !.irq_delay = 10]
            ELSE [p1 EXCEPT !.update_audio_stream = TRUE,
                            !.update_trackbar_timestamp = FALSE]
      t == TrackOf(M.py.current_dir, file)
      M2 == play_yan_load_audio(
              [M1 EXCEPT !.py = p2, !.ea.last_pos = 0, !.ea.sample_pos = 0], t)
  IN IF t.ok THEN M2 ELSE [M2 EXCEPT !.py.music_length = 2]

case_NMP_STOP_MUSIC(M) ==
  LET M1 == Tagged(M, NMP_STOP_MUSIC)
  IN [M1 EXCEPT !.py = [ResetSeek(@) EXCEPT
                          !.is_music_playing = FALSE, !.is_media_playing = FALSE,
                          !.audio_frame_count = 0, !.tracker_update_size = 0,
                          !.update_audio_stream = FALSE,
                          !.update_trackbar_timestamp = FALSE,
                          !.nmp_manual_cmd = 0, !.irq_delay = 0, !.last_delay = 0,
                          !.nmp_manual_irq = FALSE],
                !.ea.playing = FALSE]

case_NMP_PAUSE(M) ==
  LET M1 == Tagged(M, NMP_PAUSE)
  IN [M1 EXCEPT !.py = [ResetSeek(@) EXCEPT
                          !.is_music_playing = FALSE, !.is_media_playing = FALSE,
                          !.last_delay = M.py.irq_delay,
                          !.nmp_manual_cmd = 0, !.irq_delay = 0,
                          !.nmp_manual_irq = FALSE],
                !.ea.playing = FALSE]

\* The status written is NMP_PAUSE | 0x4000 (line 347).
case_NMP_RESUME(M) ==
  LET M1 == Tagged(M, NMP_PAUSE)
      p1 == [M1.py EXCEPT !.is_music_playing = TRUE, !.is_media_playing = TRUE]
      p2 == IF M.ea.use_headphones
            THEN [p1 EXCEPT !.update_audio_stream = FALSE,
                            !.update_trackbar_timestamp = TRUE,
                            !.nmp_manual_cmd = NMP_UPDATE_AUDIO,
                            !.irq_delay = p1.last_delay,
                            !.last_delay = 0]
            ELSE [p1 EXCEPT !.update_audio_stream = TRUE,
                            !.update_trackbar_timestamp = FALSE]
  IN [M1 EXCEPT !.py = p2,
                !.ea.playing = IF M.py.audio_sample_rate # 0 /\ M.py.audio_channels # 0
                               THEN TRUE ELSE @]

RECURSIVE process_nmp_cmd(_)
RECURSIVE process_play_yan_irq(_)

\* nmp_manual_irq = true; process_play_yan_irq(); nmp_manual_irq = false
ManualIrq(M) ==
  LET M1 == process_play_yan_irq([M EXCEPT !.py.nmp_manual_irq = TRUE,
                                           !.raised = Append(@, M.py.irq_delay)])
  IN [M1 EXCEPT !.py.nmp_manual_irq = FALSE]

SeekMove_fixed_step(M, seek_shift) ==
  IF M.py.nmp_seek_dir = 0
  THEN IF M.ea.use_headphones
       THEN LET new_pos == M.ea.sample_pos - (M.py.audio_sample_rate * 2)
            IN [M EXCEPT !.ea.sample_pos = IF new_pos < 0 THEN 0 ELSE new_pos]
       ELSE LET new_pos == M.py.audio_sample_index - (SpeakerRate * 2)
            IN [M EXCEPT !.py.audio_sample_index = IF new_pos < 0 THEN 0 ELSE new_pos]
  ELSE IF M.ea.use_headphones
       THEN [M EXCEPT !.ea.sample_pos = @ + (M.py.audio_sample_rate * 2)]
       ELSE [M EXCEPT !.py.audio_sample_index = @ + (SpeakerRate * 2)]

\* The cursor move of SEEK once the direction is known (lines 401-426).
SeekMove(M, seek_shift) ==
  IF M.py.nmp_seek_dir = 0
  THEN IF M.ea.use_headphones
       THEN LET new_pos == M.ea.sample_pos - (M.py.audio_sample_rate * seek_shift)
            IN [M EXCEPT !.ea.sample_pos = IF new_pos < 0 THEN 0 ELSE new_pos]
       ELSE LET new_pos == M.py.audio_sample_index - (SpeakerRate * seek_shift)
            IN [M EXCEPT !.py.audio_sample_index = IF new_pos < 0 THEN 0 ELSE new_pos]
  ELSE IF M.ea.use_headphones
       THEN [M EXCEPT !.ea.sample_pos = @ + (M.py.audio_sample_rate * seek_shift)]
       ELSE [M EXCEPT !.py.audio_sample_index = @ + (SpeakerRate * seek_shift)]

case_NMP_SEEK(M) ==
  LET M1 == Tagged(M, NMP_SEEK)
      count == M.py.nmp_seek_count + 1
      seek_shift == 2 + (count \div 10)
      last_pos == M.py.nmp_seek_pos
      pos == M.py.command_stream[4]
      M2 == [M1 EXCEPT !.py.nmp_seek_count = count]
      M3 == IF M.py.nmp_seek_dir = 255
            THEN [M2 EXCEPT !.py.nmp_seek_pos = pos,
                            !.py.nmp_seek_dir =
                               IF last_pos # 0 /\ pos # 0
                               THEN (IF pos < last_pos THEN 0 ELSE 1)
                               ELSE @]
            ELSE SeekMove(M2, seek_shift)
  IN IF Len(M.py.command_stream) >= 4
     THEN ManualIrq([M3 EXCEPT !.py.nmp_manual_cmd = NMP_UPDATE_AUDIO,
                               !.py.update_audio_stream = FALSE,
                               !.py.update_trackbar_timestamp = TRUE,
                               !.py.irq_delay = 0])
     ELSE M1

VolumeScale_rounded(v) == (((v * 126) + 46) \div 92) % 256

\* apu_stat->ext_audio.volume = (play_yan.volume / 46.0) * 63.0: the
\* conversion to the integer field drops the fraction. The quotient is a
\* whole number only for v = 0 and v = 46, where the division is exact, so
\* the floating-point result never falls on the other side of a whole number.
VolumeScale(v) == ((v * 63) \div 46) % 256

case_NMP_SET_VOLUME_tracked(M) ==
  LET M1 == IF Len(M.py.command_stream) >= 4
            THEN [M EXCEPT !.py.volume = M.py.command_stream[4],
                           !.ea.volume = VolumeScale(M.py.command_stream[4])]
            ELSE M
  IN [M1 EXCEPT !.py.nmp_seek_pos = 0, !.py.nmp_seek_dir = 255,
                !.py.nmp_valid_command = TRUE]

case_NMP_SET_VOLUME(M) ==
  LET M1 == IF Len(M.py.command_stream) >= 4
            THEN [M EXCEPT !.py.volume = M.py.command_stream[4],
                           !.ea.volume = VolumeScale(M.py.command_stream[4])]
            ELSE M
  IN [M1 EXCEPT !.py.nmp_seek_pos = 0, !.py.nmp_seek_dir = 255]

case_NMP_PLAY_SFX(M) ==
  LET p1 == [M.py EXCEPT !.nmp_valid_command = TRUE,
                         !.is_music_playing = TRUE, !.is_media_playing = TRUE,
                         !.audio_sample_index = 0,
                         !.l_audio_dither_error = 0, !.r_audio_dither_error = 0,
                         !.tracker_update_size = 0,
                         !.update_audio_stream = TRUE,
                         !.update_trackbar_timestamp = FALSE]
      M1 == play_yan_load_audio(
              [M EXCEPT !.py = p1, !.ea.last_pos = 0, !.ea.sample_pos = 0], SfxTrack)
  IN ManualIrq([M1 EXCEPT !.py.nmp_manual_cmd = NMP_UPDATE_AUDIO])

case_NMP_CHECK_FIRMWARE_FILE(M) == Tagged(M, NMP_CHECK_FIRMWARE_FILE)

case_NMP_READ_FIRMWARE_FILE(M) == Tagged(M, NMP_READ_FIRMWARE_FILE)

case_NMP_CLOSE_FIRMWARE_FILE(M) ==
  [Tagged(M, NMP_CLOSE_FIRMWARE_FILE) EXCEPT !.py.cmd = 0]

case_NMP_SLEEP(M) ==
  [M EXCEPT !.py.nmp_cmd_status = NMP_SLEEP + 32768, !.py.nmp_valid_command = TRUE]

case_NMP_WAKE(M) ==
  [M EXCEPT !.py.nmp_cmd_status = NMP_WAKE + 32768, !.py.nmp_valid_command = TRUE]

case_NMP_INIT(M) ==
  [M EXCEPT !.py.nmp_cmd_status = NMP_INIT, !.py.nmp_valid_command = TRUE]

\* float progress = tracker_update_size; progress /= music_length - 1;
\* progress *= 100.0 (the integer part; music_length - 1 is unsigned)
\* music_length = 0 makes the divisor 2^32 - 1 and the progress 0
Progress_of_whole_length(tracker, music_length) ==
  IF music_length = 0 THEN 0 ELSE (tracker * 100) \div music_length

Progress(tracker, music_length) ==
  IF music_length = 0 THEN 0 ELSE (tracker * 100) \div (music_length - 1)

\* The trackbar branch of UPDATE_AUDIO (lines 551-595). stop: the break of
\* line 579 was taken.
Trackbar(M) ==
  LET pos == IF M.ea.use_headphones THEN M.ea.sample_pos ELSE M.py.audio_sample_index
      rate == IF M.ea.use_headphones THEN M.py.audio_sample_rate ELSE SpeakerRate
      tus == IF rate # 0 THEN pos \div rate ELSE M.py.tracker_update_size
      p1 == [M.py EXCEPT !.update_audio_stream = TRUE,
                         !.update_trackbar_timestamp = FALSE,
                         !.audio_frame_count = 0,
                         !.tracker_update_size = tus]
      has_bar == M.py.music_length # 1
      progress == Progress(tus, M.py.music_length)
      p2 == IF has_bar
            THEN [p1 EXCEPT !.nmp_status_data = Put(@, 8, progress % 256)]
            ELSE p1
      p3 == [p2 EXCEPT !.nmp_status_data =
                          Put(Put(@, 12, (tus \div 256) % 256), 13, tus % 256)]
      p4 == IF M.ea.use_headphones
            THEN [p3 EXCEPT !.irq_delay = 60,
                            !.update_audio_stream = FALSE,
                            !.update_trackbar_timestamp = TRUE]
            ELSE p3
      \* u8(progress) of a progress above 255 is undefined
      flt == IF has_bar /\ progress > 255 THEN "progress_u8" ELSE M.fault
      bar == Append(M.bar, IF has_bar THEN progress ELSE -1)
  IN IF has_bar /\ progress >= 100
     THEN [m |-> [M EXCEPT !.py = [p2 EXCEPT !.nmp_manual_cmd = NMP_STOP_MUSIC,
                                             !.irq_delay = 1],
                           !.fault = flt, !.bar = bar],
           stop |-> TRUE]
     ELSE [m |-> [M EXCEPT !.py = p4, !.bar = bar], stop |-> FALSE]

\* Start external audio output (lines 597-604).
StartExtAudio(M) ==
  IF ~M.ea.playing /\ M.py.audio_sample_rate # 0 /\ M.py.audio_channels # 0
  THEN [M EXCEPT !.ea.channels = M.py.audio_channels,
                 !.ea.frequency = M.py.audio_sample_rate,
                 !.ea.sample_pos = 0,
                 !.ea.playing = TRUE]
  ELSE M

case_NMP_UPDATE_AUDIO(M) ==
  LET M1 == [M EXCEPT !.py.nmp_cmd_status = NMP_UPDATE_AUDIO,
                      !.py.nmp_valid_command = FALSE,
                      !.py.nmp_data_index = 0]
      M2 == [M1 EXCEPT !.py.nmp_manual_cmd = NMP_UPDATE_AUDIO,
                       !.py.audio_buffer_size = AudioBufferSize]
      stream == [M2 EXCEPT
                   !.py.nmp_status_data =
                      Put(Put(Put(Put(@, 2, Hi(AudioBufferSize)), 3, Lo(AudioBufferSize)),
                              4, 2), 5, 2),
                   !.py.nmp_audio_index = 514 + (AudioBufferSize \div 4)]
      bar == Trackbar(M2)
  IN IF ~M.py.is_music_playing THEN M1
     ELSE IF M2.py.update_audio_stream /\ ~M2.ea.use_headphones THEN StartExtAudio(stream)
     ELSE IF M2.py.update_trackbar_timestamp
          THEN (IF bar.stop THEN bar.m ELSE StartExtAudio(bar.m))
     ELSE StartExtAudio(M2)

\* double ratio = audio_sample_rate / 16384.0; index /= ratio (rate # 0)
ToSpeakerIndex(index, rate) == (index * SpeakerRate) \div rate

case_NMP_HEADPHONE_STATUS(M) ==
  LET M1 == [M EXCEPT !.py.nmp_cmd_status = NMP_HEADPHONE_STATUS,
                      !.py.nmp_valid_command = TRUE,
                      !.ea.use_headphones = ~@]
      index == M.ea.last_pos \div M.py.audio_channels
      on == [M1 EXCEPT
               !.py.nmp_status_data = Put(Put(@, 2, 0), 3, 1),
               !.py.update_audio_stream = FALSE,
               !.py.update_trackbar_timestamp = TRUE,
               !.ea.sample_pos = IF M.py.audio_channels # 0 THEN index ELSE @,
               !.py.nmp_manual_cmd = IF M.ea.playing THEN NMP_UPDATE_AUDIO ELSE @,
               !.py.irq_delay = IF M.ea.playing THEN 1 ELSE @]
      spk == IF M.py.audio_sample_rate = 0 THEN 0
             ELSE ToSpeakerIndex(index, M.py.audio_sample_rate)
      off == [M1 EXCEPT
                !.py.update_audio_stream = TRUE,
                !.py.update_trackbar_timestamp = FALSE,
                !.py.audio_sample_index =
                   IF M.py.audio_channels # 0 THEN spk - (spk % 2) ELSE @,
                !.py.nmp_manual_cmd = 0,
                !.py.irq_delay = 0]
  IN IF M1.ea.use_headphones THEN on ELSE off

case_default_keeps_status(M) == [M EXCEPT !.py.nmp_valid_command = FALSE]

case_default(M) ==
  [M EXCEPT !.py.nmp_valid_command = FALSE, !.py.nmp_cmd_status = 0]

\* Set up default status data (lines 127-130).
DefaultStatus_no_opcode(cmd) == Zeros(StatusLen)

DefaultStatus(cmd) == Put(Put(Zeros(StatusLen), 0, Hi(cmd)), 1, Lo(cmd))

process_nmp_cmd(M) ==
  LET cmd == M.py.cmd
      M0 == [M EXCEPT !.py.nmp_status_data = DefaultStatus(cmd),
                      !.disp = Append(@, cmd)]
  IN CASE cmd = NMP_START_FILE_LIST -> case_NMP_START_FILE_LIST(M0)
       [] cmd = NMP_CONTINUE_FILE_LIST -> case_NMP_CONTINUE_FILE_LIST(M0)
       [] cmd = NMP_SET_DIR -> case_NMP_SET_DIR(M0)
       [] cmd = NMP_GET_ID3_DATA -> case_NMP_GET_ID3_DATA(M0)
       [] cmd = NMP_PLAY_MUSIC -> case_NMP_PLAY_MUSIC(M0)
       [] cmd = NMP_STOP_MUSIC -> case_NMP_STOP_MUSIC(M0)
       [] cmd = NMP_PAUSE -> case_NMP_PAUSE(M0)
       [] cmd = NMP_RESUME -> case_NMP_RESUME(M0)
       [] cmd = NMP_SEEK -> case_NMP_SEEK(M0)
       [] cmd = NMP_SET_VOLUME -> case_NMP_SET_VOLUME(M0)
       [] cmd = NMP_PLAY_SFX -> case_NMP_PLAY_SFX(M0)
       [] cmd = NMP_CHECK_FIRMWARE_FILE -> case_NMP_CHECK_FIRMWARE_FILE(M0)
       [] cmd = NMP_READ_FIRMWARE_FILE -> case_NMP_READ_FIRMWARE_FILE(M0)
       [] cmd = NMP_CLOSE_FIRMWARE_FILE -> case_NMP_CLOSE_FIRMWARE_FILE(M0)
       [] cmd = NMP_SLEEP -> case_NMP_SLEEP(M0)
       [] cmd = NMP_WAKE -> case_NMP_WAKE(M0)
       [] cmd = NMP_INIT -> case_NMP_INIT(M0)
       [] cmd = NMP_UPDATE_AUDIO -> case_NMP_UPDATE_AUDIO(M0)
       [] cmd = NMP_HEADPHONE_STATUS -> case_NMP_HEADPHONE_STATUS(M0)
       [] OTHER -> case_default(M0)

\* The interrupt collaborator (play_yan.cpp): a delayed request counts
\* irq_delay down and fires when it reaches 0, a manual request fires at
\* once. Firing raises the Game Pak interrupt; after boot it runs the
\* pending manual command.
IrqFire(M) ==
  IF M.py.op_state = PLAY_YAN_BOOT_SEQUENCE THEN [M EXCEPT !.irq = TRUE]
  ELSE IF M.py.nmp_manual_cmd # 0
  THEN [process_nmp_cmd([M EXCEPT !.py.cmd = M.py.nmp_manual_cmd]) EXCEPT !.irq = TRUE]
  ELSE M

process_play_yan_irq(M) ==
  IF M.py.nmp_manual_irq THEN IrqFire(M)
  ELSE IF M.py.irq_delay = 0 THEN M
  ELSE LET M1 == [M EXCEPT !.py.irq_delay = @ - 1]
       IN IF M1.py.irq_delay # 0 THEN M1 ELSE IrqFire(M1)

\* ------------------------------------------------------------ access_nmp_io

NmpBootData == <<32769, 34304>>

\* Strings an out-of-bounds vector read can produce.
JunkStrings == {<< >>, <<63>>}

\* card_data[(x * 2) + 2] = 0; card_data[(x * 2) + 3] = chr for x < str_len,
\* starting at byte `from` of the block
RECURSIVE PutText(_, _, _, _)
PutText(cd, from, text, n) ==
  IF n = 0 THEN cd
  ELSE PutText(Put(Put(cd, from + 2 * (n - 1), 0), from + 2 * (n - 1) + 1, text[n]),
               from, text, n - 1)

\* The 528-byte block of one list entry (lines 766-789).
ListBlock(list_entry, is_folder) ==
  LET str_len == IF Len(list_entry) > 255 THEN 255 ELSE Len(list_entry)
      tagv == IF is_folder THEN 1 ELSE 2
      cd1 == Put(Put(Zeros(ListBlockLen), 0, 0), 1, tagv)
  IN Put(PutText(cd1, 2, list_entry, str_len), 525, tagv)

access_list_files_first(M) ==
  LET file_limit == Len(M.py.music_files)
      real_entry == M.py.nmp_entry_count - 1
      folder_entry == real_entry - file_limit
      oob == real_entry >= file_limit /\ folder_entry >= Len(M.py.folders)
      is_folder == real_entry >= file_limit
      list_entry == IF ~is_folder THEN M.py.music_files[real_entry + 1]
                    ELSE IF oob THEN M.junk
                    ELSE M.py.folders[folder_entry + 1]
  IN IF M.py.nmp_entry_count # 0
     THEN [M EXCEPT !.py.nmp_data_index = 0,
                    !.py.card_data = ListBlock(list_entry, is_folder),
                    !.fault = IF oob THEN "vector_oob" ELSE @]
     ELSE [M EXCEPT !.py.nmp_data_index = 0,
                    !.py.card_data = Zeros(ListBlockLen)]

\* File and folder list (lines 742-792).
access_list(M) ==
  LET folder_limit == Len(M.py.folders)
      real_entry == M.py.nmp_entry_count - 1
      file_entry == real_entry - folder_limit
      oob == real_entry >= folder_limit /\ file_entry >= Len(M.py.music_files)
      is_folder == real_entry < folder_limit
      list_entry == IF is_folder THEN M.py.folders[real_entry + 1]
                    ELSE IF oob THEN M.junk
                    ELSE M.py.music_files[file_entry + 1]
  IN IF M.py.nmp_entry_count # 0
     THEN [M EXCEPT !.py.nmp_data_index = 0,
                    !.py.card_data = ListBlock(list_entry, is_folder),
                    !.fault = IF oob THEN "vector_oob" ELSE @]
     ELSE [M EXCEPT !.py.nmp_data_index = 0,
                    !.py.card_data = Zeros(ListBlockLen)]

\* ID3 Data (lines 795-823).
access_id3(M) ==
  LET t_len == IF Len(M.py.nmp_title) > 66 THEN 66 ELSE Len(M.py.nmp_title)
      a_len == IF Len(M.py.nmp_artist) > 68 THEN 68 ELSE Len(M.py.nmp_artist)
      cd1 == PutText(Zeros(Id3BlockLen), 4, M.py.nmp_title, t_len)
  IN [M EXCEPT !.py.nmp_data_index = 0,
               !.py.card_data = PutText(cd1, 136, M.py.nmp_artist, a_len)]

\* sample >>= 8 on a signed value
Asr8(v) == v \div 256

Clip8(v) == IF v > 127 THEN 127 ELSE IF v < -128 THEN -128 ELSE v

\* The loop of lines 854-895, pass k = 0 .. n-1 (x = k + 2), for the sample
\* cursor asi0 at loop entry. Pass k reads the cursor asi0 + k, the raw
\* sample at SourceIndex and the error left by pass k - 1 (err0 for k = 0).
SourceIndex(asi, rate, channels, stream_size, is_left) ==
  LET raw_index == (((rate * asi) \div SpeakerRate) * channels)
                   + (IF is_left THEN 0 ELSE 1)
  IN IF raw_index >= stream_size THEN stream_size - 1 ELSE raw_index

PastEnd(asi, rate, channels, stream_size, is_left) ==
  (((rate * asi) \div SpeakerRate) * channels) + (IF is_left THEN 0 ELSE 1) >= stream_size

\* sample = e_stream[index] + ((error >> 4) * 7), >> 8, clipped; & 0xFF
Quantize(raw, error) == Clip8(Asr8(raw + ((error \div 16) * 7))) % 256

\* error = e_stream[index] & 0xFF
NewError(raw) == raw % 256

\* The byte pass k writes, and where: offset = (asi & 1) ? (x - 1) : (x + 1)
PassOffset(asi0, k) == IF (asi0 + k) % 2 = 1 THEN k + 1 ELSE k + 3

PassByte(asi0, err0, k, rate, channels, stream_size, is_left) ==
  LET raw == PcmSample(SourceIndex(asi0 + k, rate, channels, stream_size, is_left))
      error == IF k = 0 THEN err0
               ELSE NewError(PcmSample(
                      SourceIndex(asi0 + k - 1, rate, channels, stream_size, is_left)))
  IN Quantize(raw, error)

\* card_data after the loop: byte o is written by the one pass k with
\* PassOffset(asi0, k) = o, if there is one.
AudioBlock(size, n, asi0, err0, rate, channels, stream_size, is_left) ==
  [i \in 1..size |->
     LET o == i - 1
         k == IF (asi0 + o - 1) % 2 = 1 THEN o - 1 ELSE o - 3
     IN IF k >= 0 /\ k < n /\ PassOffset(asi0, k) = o
        THEN PassByte(asi0, err0, k, rate, channels, stream_size, is_left)
        ELSE 0]

\* if(trigger_timestamp) { ... } (lines 901-909)
TriggerTimestamp(M) ==
  ManualIrq([M EXCEPT !.py.update_audio_stream = FALSE,
                      !.py.update_trackbar_timestamp = TRUE,
                      !.py.irq_delay = 0])

access_audio_no_rewind(M) ==
  LET frame == M.py.audio_frame_count + 1
      is_left == frame % 2 = 1
      n == M.py.audio_buffer_size \div 2
      size == M.py.audio_buffer_size + 2
      asi0 == M.py.audio_sample_index
      err0 == IF is_left THEN M.py.l_audio_dither_error ELSE M.py.r_audio_dither_error
      rate == M.py.audio_sample_rate
      channels == M.py.audio_channels
      stream_size == M.ea.length \div 2
      last_index == IF n = 0 THEN 0
                    ELSE SourceIndex(asi0 + n - 1, rate, channels, stream_size, is_left)
      eos == \E k \in 0..(n - 1) : PastEnd(asi0 + k, rate, channels, stream_size, is_left)
      ts == \/ asi0 = 0 /\ ~is_left
            \/ ~is_left /\ \E k \in 1..n : (asi0 + k) % SpeakerRate = 0
      err1 == IF n = 0 THEN err0 ELSE NewError(PcmSample(last_index))
      M1 == [M EXCEPT !.py.card_data = Zeros(size),
                      !.py.nmp_data_index = 0,
                      !.py.audio_frame_count = frame]
      M2 == [M1 EXCEPT
               !.py.card_data =
                  AudioBlock(size, n, asi0, err0, rate, channels, stream_size, is_left),
               !.py.is_music_playing = IF eos THEN FALSE ELSE @,
               !.py.is_media_playing = IF eos THEN FALSE ELSE @,
               !.py.l_audio_dither_error = IF is_left THEN err1 ELSE @,
               !.py.r_audio_dither_error = IF is_left THEN @ ELSE err1,
               !.py.audio_sample_index = asi0 + n,
               !.ea.last_pos = IF is_left THEN @ ELSE last_index]
  IN IF ~M.py.update_audio_stream THEN M
     ELSE IF rate = 0 THEN M1
     ELSE IF ts THEN TriggerTimestamp(M2) ELSE M2

\* Music Data (lines 826-912).
access_audio(M) ==
  LET frame == M.py.audio_frame_count + 1
      is_left == frame % 2 = 1
      n == M.py.audio_buffer_size \div 2
      size == M.py.audio_buffer_size + 2
      asi0 == M.py.audio_sample_index
      err0 == IF is_left THEN M.py.l_audio_dither_error ELSE M.py.r_audio_dither_error
      rate == M.py.audio_sample_rate
      channels == M.py.audio_channels
      stream_size == M.ea.length \div 2
      last_index == IF n = 0 THEN 0
                    ELSE SourceIndex(asi0 + n - 1, rate, channels, stream_size, is_left)
      eos == \E k \in 0..(n - 1) : PastEnd(asi0 + k, rate, channels, stream_size, is_left)
      ts == \/ asi0 = 0 /\ ~is_left
            \/ ~is_left /\ \E k \in 1..n : (asi0 + k) % SpeakerRate = 0
      err1 == IF n = 0 THEN err0 ELSE NewError(PcmSample(last_index))
      M1 == [M EXCEPT !.py.card_data = Zeros(size),
                      !.py.nmp_data_index = 0,
                      !.py.audio_frame_count = frame]
      M2 == [M1 EXCEPT
               !.py.card_data =
                  AudioBlock(size, n, asi0, err0, rate, channels, stream_size, is_left),
               !.py.is_music_playing = IF eos THEN FALSE ELSE @,
               !.py.is_media_playing = IF eos THEN FALSE ELSE @,
               !.py.l_audio_dither_error = IF is_left THEN err1 ELSE @,
               !.py.r_audio_dither_error = IF is_left THEN @ ELSE err1,
               !.py.audio_sample_index = IF is_left THEN @ ELSE asi0 + n,
               !.ea.last_pos = IF is_left THEN @ ELSE last_index]
  IN IF ~M.py.update_audio_stream THEN M
     ELSE IF rate = 0 THEN M1
     ELSE IF ts THEN TriggerTimestamp(M2) ELSE M2

\* Cartridge Status (lines 681-697): the machine and the status value
status_0x100(M) ==
  IF M.py.nmp_init_stage < 4
  THEN [m |-> [M EXCEPT !.py.nmp_init_stage = @ + 1,
                        !.irq = IF M.py.nmp_init_stage + 1 = 2 THEN TRUE ELSE @],
        stat |-> NmpBootData[(M.py.nmp_init_stage \div 2) + 1]]
  ELSE [m |-> M, stat |-> M.py.nmp_cmd_status]

status_0x10F_keeps_flag(M) ==
  [m |-> [M EXCEPT !.py.op_state = PLAY_YAN_PROCESS_CMD,
                   !.py.firmware_addr = 0,
                   !.py.command_stream = << >>,
                   !.irq = IF M.py.nmp_valid_command THEN TRUE ELSE @,
                   !.py.nmp_ticks = @ + 6],
   stat |-> (M.py.nmp_ticks + 6) % 65536]

status_0x10F_keeps_stream(M) ==
  [m |-> [M EXCEPT !.py.op_state = PLAY_YAN_PROCESS_CMD,
                   !.py.firmware_addr = 0,
                   !.irq = IF M.py.nmp_valid_command THEN TRUE ELSE @,
                   !.py.nmp_valid_command = FALSE,
                   !.py.nmp_ticks = @ + 6],
   stat |-> (M.py.nmp_ticks + 6) % 65536]

\* Write command or wait for command to finish (lines 700-717)
status_0x10F(M) ==
  [m |-> [M EXCEPT !.py.op_state = PLAY_YAN_PROCESS_CMD,
                   !.py.firmware_addr = 0,
                   !.py.command_stream = << >>,
                   !.irq = IF M.py.nmp_valid_command THEN TRUE ELSE @,
                   !.py.nmp_valid_command = FALSE,
                   !.py.nmp_ticks = @ + 6],
   stat |-> (M.py.nmp_ticks + 6) % 65536]

\* I/O Busy Flag (lines 721-725)
status_0x110(M) == [m |-> [M EXCEPT !.py.op_state = PLAY_YAN_WAIT], stat |-> 0]

access_status_keeps_param(M) ==
  LET param == M.py.access_param
      M1 == [M EXCEPT !.py.firmware_addr = param * 2]
      r == CASE param = 256 -> status_0x100(M1)
             [] param = 271 -> status_0x10F(M1)
             [] param = 272 -> status_0x110(M1)
             [] OTHER -> [m |-> M1, stat |-> 0]
  IN [r.m EXCEPT !.py.nmp_status_data = Put(Put(@, 0, Hi(r.stat)), 1, Lo(r.stat)),
                 !.py.nmp_data_index = 0,
                 !.acc = "status"]

\* The status / firmware-address branch (lines 674-731).
access_status(M) ==
  LET param == M.py.access_param
      M1 == [M EXCEPT !.py.firmware_addr = param * 2]
      r == CASE param = 256 -> status_0x100(M1)
             [] param = 271 -> status_0x10F(M1)
             [] param = 272 -> status_0x110(M1)
             [] OTHER -> [m |-> M1, stat |-> 0]
  IN [r.m EXCEPT !.py.nmp_status_data = Put(Put(@, 0, Hi(r.stat)), 1, Lo(r.stat)),
                 !.py.nmp_data_index = 0,
                 !.py.access_param = 0,
                 !.acc = "status"]

access_data_keeps_block(M) ==
  LET M1 == [M EXCEPT !.py.op_state = PLAY_YAN_GET_SD_DATA, !.acc = "data"]
  IN CASE M.py.cmd \in {NMP_START_FILE_LIST, NMP_CONTINUE_FILE_LIST} -> access_list(M1)
       [] M.py.cmd = NMP_GET_ID3_DATA -> access_id3(M1)
       [] M.py.cmd = NMP_UPDATE_AUDIO -> access_audio(M1)
       [] OTHER -> M1

\* Access SD card data (lines 734-914).
access_data(M) ==
  LET M1 == [M EXCEPT !.py.card_data = << >>, !.py.op_state = PLAY_YAN_GET_SD_DATA,
                      !.acc = "data"]
  IN CASE M.py.cmd \in {NMP_START_FILE_LIST, NMP_CONTINUE_FILE_LIST} -> access_list(M1)
       [] M.py.cmd = NMP_GET_ID3_DATA -> access_id3(M1)
       [] M.py.cmd = NMP_UPDATE_AUDIO -> access_audio(M1)
       [] OTHER -> M1

IsStatusParam(py) ==
  /\ py.access_param # 0
  /\ py.access_param # 257
  /\ py.access_param # 514
  /\ py.access_param # py.nmp_audio_index

access_nmp_io(M) ==
  LET M0 == [M EXCEPT !.py.firmware_addr = 0]
  IN IF IsStatusParam(M.py) THEN access_status(M0) ELSE access_data(M0)

\* ------------------------------------------------------- write_nmp, read_nmp

write_cnt_low_boots_again(M, value) ==
  LET mode == (Hi(M.py.access_mode) * 256) + value
      M1 == [M EXCEPT !.py.access_mode = mode]
  IN IF mode = 2056
     THEN [M1 EXCEPT !.py.irq_delay = BootDelay, !.py.op_state = PLAY_YAN_BOOT_SEQUENCE]
     ELSE IF mode = 1028 /\ M.py.op_state = PLAY_YAN_PROCESS_CMD
             /\ Len(M.py.command_stream) >= 2
     THEN process_nmp_cmd(
            [M1 EXCEPT !.py.cmd = (M.py.command_stream[1] * 256) + M.py.command_stream[2]])
     ELSE M1

\* case PY_NMP_CNT+1 (lines 30-53)
write_cnt_low(M, value) ==
  LET mode == (Hi(M.py.access_mode) * 256) + value
      M1 == [M EXCEPT !.py.access_mode = mode]
  IN IF mode = 2056 /\ M.py.op_state = PLAY_YAN_INIT
     THEN [M1 EXCEPT !.py.irq_delay = BootDelay, !.py.op_state = PLAY_YAN_BOOT_SEQUENCE]
     ELSE IF mode = 1028 /\ M.py.op_state = PLAY_YAN_PROCESS_CMD
             /\ Len(M.py.command_stream) >= 2
     THEN process_nmp_cmd(
            [M1 EXCEPT !.py.cmd = (M.py.command_stream[1] * 256) + M.py.command_stream[2]])
     ELSE M1

\* case PY_NMP_PARAMETER+1 (lines 62-70)
write_parameter_low(M, value) ==
  LET param == ((M.py.access_param \div 256) * 256) + value
      M1 == [M EXCEPT !.py.access_param = param]
  IN IF M.py.access_mode = 4112 THEN [M1 EXCEPT !.py.access_param = Shl16(param)]
     ELSE IF M.py.access_mode = 0 THEN access_nmp_io(M1)
     ELSE M1

write_data_in_ignores_state(M, value) ==
  IF M.py.firmware_addr # 0
  THEN [M EXCEPT !.py.firmware = (M.py.firmware_addr :> value) @@ @,
                 !.py.firmware_addr = @ + 1]
  ELSE [M EXCEPT !.py.command_stream = Append(@, value)]

\* case PY_NMP_DATA_IN, PY_NMP_DATA_IN+1 (lines 73-85)
write_data_in(M, value) ==
  IF M.py.firmware_addr # 0
  THEN IF M.py.firmware_addr < FirmwareSize
       THEN [M EXCEPT !.py.firmware = (M.py.firmware_addr :> value) @@ @,
                      !.py.firmware_addr = @ + 1]
       ELSE [M EXCEPT !.py.firmware_addr = @ + 1, !.fault = "firmware_oob"]
  ELSE IF M.py.op_state = PLAY_YAN_PROCESS_CMD
  THEN [M EXCEPT !.py.command_stream = Append(@, value)]
  ELSE M

write_nmp(M, address, value) ==
  CASE address = PY_NMP_CNT ->
         [M EXCEPT !.py.access_mode = (value * 256) + Lo(@)]
    [] address = PY_NMP_CNT + 1 -> write_cnt_low(M, value)
    [] address = PY_NMP_PARAMETER ->
         [M EXCEPT !.py.access_param =
                      ((@ \div 65536) * 65536) + (value * 256) + Lo(@)]
    [] address = PY_NMP_PARAMETER + 1 -> write_parameter_low(M, value)
    [] address \in {PY_NMP_DATA_IN, PY_NMP_DATA_IN + 1} -> write_data_in(M, value)
    [] OTHER -> M

read_nmp_always_advances(M, address) ==
  IF address \notin {PY_NMP_DATA_OUT, PY_NMP_DATA_OUT + 1} THEN [result |-> 0, m |-> M]
  ELSE IF M.py.op_state = PLAY_YAN_GET_SD_DATA
  THEN [result |-> IF M.py.nmp_data_index < Len(M.py.card_data)
                   THEN M.py.card_data[M.py.nmp_data_index + 1] ELSE 0,
        m |-> [M EXCEPT !.py.nmp_data_index = @ + 1]]
  ELSE [result |-> IF M.py.nmp_data_index < 16
                   THEN M.py.nmp_status_data[M.py.nmp_data_index + 1] ELSE 0,
        m |-> [M EXCEPT !.py.nmp_data_index = @ + 1]]

\* read_nmp: the byte returned and the machine after the read (lines 90-120)
read_nmp(M, address) ==
  IF address \notin {PY_NMP_DATA_OUT, PY_NMP_DATA_OUT + 1} THEN [result |-> 0, m |-> M]
  ELSE IF M.py.op_state = PLAY_YAN_GET_SD_DATA
  THEN IF M.py.nmp_data_index < Len(M.py.card_data)
       THEN [result |-> M.py.card_data[M.py.nmp_data_index + 1],
             m |-> [M EXCEPT !.py.nmp_data_index = @ + 1]]
       ELSE [result |-> 0, m |-> M]
  ELSE IF M.py.nmp_data_index < 16
  THEN [result |-> M.py.nmp_status_data[M.py.nmp_data_index + 1],
        m |-> [M EXCEPT !.py.nmp_data_index = @ + 1]]
  ELSE [result |-> 0, m |-> M]

\* -------------------------------------------------------------------- state

InitPlayYan ==
  [access_mode |-> 0, access_param |-> 0, op_state |-> PLAY_YAN_INIT,
   command_stream |-> << >>, cmd |-> 0, nmp_cmd_status |-> 0,
   nmp_valid_command |-> FALSE, nmp_status_data |-> Zeros(StatusLen),
   card_data |-> << >>, nmp_data_index |-> 0,
   firmware |-> << >>, firmware_addr |-> 0,
   current_dir |-> RootDir, current_music_file |-> << >>,
   folders |-> << >>, music_files |-> << >>, nmp_entry_count |-> 0,
   nmp_title |-> << >>, nmp_artist |-> << >>,
   is_music_playing |-> FALSE, is_media_playing |-> FALSE,
   audio_sample_index |-> 0, audio_sample_rate |-> 0, audio_channels |-> 0,
   l_audio_dither_error |-> 0, r_audio_dither_error |-> 0,
   audio_buffer_size |-> 0, audio_frame_count |-> 0, tracker_update_size |-> 0,
   music_length |-> 0, volume |-> 0,
   nmp_seek_pos |-> 0, nmp_seek_dir |-> 255, nmp_seek_count |-> 0,
   update_audio_stream |-> FALSE, update_trackbar_timestamp |-> FALSE,
   nmp_manual_cmd |-> 0, irq_delay |-> 0, last_delay |-> 0, nmp_manual_irq |-> FALSE,
   nmp_ticks |-> 0, nmp_init_stage |-> 0, nmp_audio_index |-> 0]

InitExtAudio ==
  [use_headphones |-> FALSE, playing |-> FALSE, last_pos |-> 0, sample_pos |-> 0,
   volume |-> 0, channels |-> 0, frequency |-> 0, length |-> 0]

\* What the last bus operation was: the handler (op), the byte written to
\* data-in or to the low half of the parameter register (value), the
\* access_nmp_io branch taken (acc), the opcodes passed to process_nmp_cmd
\* (disp), irq_delay at each manual interrupt request
\* (raised), the progress each trackbar update computed, -1 where it
\* computed none (bar); last is the opcode dispatched most recently, done
\* whether a control-register write has dispatched since the last 0x10F poll.
NoBus ==
  [op |-> "none", value |-> 0, acc |-> "none", disp |-> << >>, raised |-> << >>,
   done |-> FALSE,
   bar |-> << >>, last |-> -1]

Init ==
  /\ play_yan = InitPlayYan
  /\ ext_audio = InitExtAudio
  /\ reg_if = FALSE
  /\ fault = "none"
  /\ halted = FALSE
  /\ bus = NoBus
  /\ result = 0

\* The machine a handler starts from; junk is what an out-of-bounds read yields.
Machine(junk) ==
  [py |-> play_yan, ea |-> ext_audio, irq |-> reg_if, fault |-> "none",
   disp |-> << >>, raised |-> << >>, bar |-> << >>, acc |-> "none", junk |-> junk]

\* The state after a handler returned R. Undefined behaviour in the handler
\* either went on as R says or ended the process.
Commit(R, op, value, res) ==
  /\ play_yan' = R.py
  /\ ext_audio' = R.ea
  /\ reg_if' = R.irq
  /\ fault' = IF R.fault # "none" THEN R.fault ELSE fault
  /\ halted' \in (IF R.fault # "none" THEN {FALSE, TRUE} ELSE {FALSE})
  /\ bus' = [op |-> op, value |-> value, acc |-> R.acc, disp |-> R.disp,
             raised |-> R.raised, bar |-> R.bar,
             done |-> IF R.py.nmp_ticks # play_yan.nmp_ticks THEN FALSE
                      ELSE IF op = "cnt_low" /\ R.disp # << >> THEN TRUE
                      ELSE bus.done,
             last |-> IF R.disp = << >> THEN bus.last ELSE R.disp[Len(R.disp)]]
  /\ result' = res

\* ------------------------------------------------------------ guest inputs

\* The byte the guest writes to firmware space.
FirmwareByte == 165

IsPrefix(p, s) == Len(p) <= Len(s) /\ SubSeq(s, 1, Len(p)) = p

\* Bounds on the counters a command advances.
WithinBounds(py, cmd) ==
  /\ cmd = NMP_CONTINUE_FILE_LIST => py.nmp_entry_count < MaxEntryCount
  /\ cmd = NMP_SEEK => py.nmp_seek_count < MaxSeekCount
  /\ (cmd = NMP_SET_DIR /\ ParseName(py.command_stream) # <<Dot, Dot>>) =>
       Len(py.current_dir) < MaxDirLen

Dispatches(py, value) ==
  /\ (Hi(py.access_mode) * 256) + value = 1028
  /\ py.op_state = PLAY_YAN_PROCESS_CMD
  /\ Len(py.command_stream) >= 2

\* --------------------------------------------------------------- actions

\* A 16-bit register is written as two byte writes back to back, high byte
\* then low byte: nothing else happens between the two.
MidWord == bus.op \in {"cnt_high", "parameter_high"}

Ready == ~halted /\ ~MidWord

WriteCntHigh(value) ==
  /\ Ready
  /\ Commit(write_nmp(Machine(<< >>), PY_NMP_CNT, value), "cnt_high", 0, result)

WriteCntLow(value) ==
  /\ ~halted
  /\ bus.op = "cnt_high"
  /\ Dispatches(play_yan, value) =>
       WithinBounds(play_yan, (play_yan.command_stream[1] * 256) + play_yan.command_stream[2])
  /\ Commit(write_nmp(Machine(<< >>), PY_NMP_CNT + 1, value), "cnt_low", 0, result)

WriteParameterHigh(value) ==
  /\ Ready
  /\ Commit(write_nmp(Machine(<< >>), PY_NMP_PARAMETER, value), "parameter_high", 0, result)

\* The write of value polls 0x10F only while fewer than n polls were made.
PollsWithin(n, value) ==
  (play_yan.access_mode = 0 /\ ((play_yan.access_param \div 256) * 256) + value = 271) =>
    play_yan.nmp_ticks < 6 * n

\* The write of value dispatches SEEK only while fewer than n were counted.
SeeksWithin(n, value) ==
  ( /\ Dispatches(play_yan, value)
    /\ (play_yan.command_stream[1] * 256) + play_yan.command_stream[2] = NMP_SEEK ) =>
    play_yan.nmp_seek_count < n

\* The write of value fetches an audio chunk.
AudioAccess(value) ==
  LET py == [play_yan EXCEPT !.access_param = ((@ \div 256) * 256) + value]
  IN /\ py.access_mode = 0
     /\ ~IsStatusParam(py)
     /\ py.cmd = NMP_UPDATE_AUDIO
     /\ py.update_audio_stream

WriteParameterLow(value) ==
  /\ ~halted
  /\ bus.op = "parameter_high"
  /\ PollsWithin(MaxPolls, value)
  /\ AudioAccess(value) =>
       /\ play_yan.audio_sample_index < MaxSampleIndex
       /\ play_yan.audio_frame_count < MaxFrames
  /\ \E junk \in JunkStrings :
       Commit(write_nmp(Machine(junk), PY_NMP_PARAMETER + 1, value),
              "parameter_low", value, result)

WriteDataIn(half, value, streams) ==
  /\ Ready
  /\ play_yan.firmware_addr # 0 =>
       /\ value = FirmwareByte
       /\ \/ play_yan.firmware_addr \in DOMAIN play_yan.firmware
          \/ Cardinality(DOMAIN play_yan.firmware) < MaxFirmwareWrites
       /\ play_yan.firmware_addr >= FirmwareSize => fault # "firmware_oob"
  /\ (play_yan.firmware_addr = 0 /\ play_yan.op_state = PLAY_YAN_PROCESS_CMD) =>
       /\ Len(play_yan.command_stream) < MaxStream
       /\ \E s \in streams : IsPrefix(Append(play_yan.command_stream, value), s)
  /\ Commit(write_nmp(Machine(<< >>), PY_NMP_DATA_IN + half, value), "data_in", value, result)

ReadDataOut(half) ==
  /\ Ready
  /\ \/ play_yan.nmp_data_index < MaxReadIndex
     \/ /\ play_yan.op_state = PLAY_YAN_GET_SD_DATA
        /\ play_yan.nmp_data_index >= Len(play_yan.card_data)
  /\ LET r == read_nmp(Machine(<< >>), PY_NMP_DATA_OUT + half)
     IN Commit(r.m, "data_out", 0, r.result)

\* The scheduler's call of process_play_yan_irq, once per frame.
IrqTick ==
  /\ Ready
  /\ Commit(process_play_yan_irq(Machine(<< >>)), "irq", 0, result)

\* The guest acknowledges the Game Pak interrupt in REG_IF.
AckIrq ==
  /\ Ready
  /\ reg_if
  /\ Commit([Machine(<< >>) EXCEPT !.irq = FALSE], "ack", 0, result)

StreamBytes(streams) == UNION { {s[i] : i \in 1..Len(s)} : s \in streams }

\* Command streams, control words and parameter words the guest sends in
\* the register-protocol specification.
ProtoStreams == { <<3, 3, 0>> }

Next ==
  \/ \E w \in {0, 1028} : WriteCntHigh(Hi(w))
  \/ \E w \in {0, 1028} : Hi(w) = Hi(play_yan.access_mode) /\ WriteCntLow(Lo(w))
  \/ \E w \in {0, 256, 271, 272, 291} : WriteParameterHigh(Hi(w))
  \/ \E w \in {0, 256, 271, 272, 291} :
       /\ Hi(w) = Hi(play_yan.access_param)
       /\ play_yan.nmp_ticks < 6 * BrowsePolls
       /\ WriteParameterLow(Lo(w))
  \/ \E h \in {0, 1}, v \in StreamBytes(ProtoStreams) \cup {FirmwareByte} :
       WriteDataIn(h, v, ProtoStreams)
  \/ IrqTick

Spec == Init /\ [][Next]_vars

\* Command streams of the command specification: GET_ID3_DATA "b",
\* PLAY_SFX, UPDATE_AUDIO, RESUME, CLOSE_FIRMWARE_FILE, an unknown opcode.
CmdStreams ==
  { <<0, 64, 0, 98>>, <<2, 0>>, <<129, 0>>, <<0, 83>>, <<3, 3>>, <<0, 5>> }

NextCmd ==
  \/ \E w \in {0, 1028} : WriteCntHigh(Hi(w))
  \/ \E w \in {0, 1028} : Hi(w) = Hi(play_yan.access_mode) /\ WriteCntLow(Lo(w))
  \/ \E w \in {0, 271} : WriteParameterHigh(Hi(w))
  \/ \E w \in {0, 271} :
       /\ Hi(w) = Hi(play_yan.access_param)
       /\ PollsWithin(BrowsePolls, Lo(w))
       /\ WriteParameterLow(Lo(w))
  \/ \E v \in StreamBytes(CmdStreams) : WriteDataIn(0, v, CmdStreams)
  \/ IrqTick

SpecCmd == Init /\ [][NextCmd]_vars

\* The guest browsing the card: list commands and directory changes.
\* SET_DIR "a" and SET_DIR ".." carry the name as 16-bit characters.
ListStreams ==
  { <<0, 16>>, <<0, 17>>, <<0, 32, 0, 97>>, <<0, 32, 0, Dot, 0, Dot>> }

NextList ==
  \/ \E w \in {0, 1028} : WriteCntHigh(Hi(w))
  \/ \E w \in {0, 1028} : Hi(w) = Hi(play_yan.access_mode) /\ WriteCntLow(Lo(w))
  \/ \E w \in {0, 271} : WriteParameterHigh(Hi(w))
  \/ \E w \in {0, 271} :
       /\ Hi(w) = Hi(play_yan.access_param)
       /\ PollsWithin(BrowsePolls, Lo(w))
       /\ WriteParameterLow(Lo(w))
  \/ \E v \in StreamBytes(ListStreams) : WriteDataIn(0, v, ListStreams)
  \/ IrqTick

SpecList == Init /\ [][NextList]_vars

\* The guest reading the data-out register after status and data accesses.
ReadStreams == { <<0, 16>> }

NextRead ==
  \/ \E w \in {0, 1028} : WriteCntHigh(Hi(w))
  \/ \E w \in {0, 1028} : Hi(w) = Hi(play_yan.access_mode) /\ WriteCntLow(Lo(w))
  \/ \E w \in {0, 271} : WriteParameterHigh(Hi(w))
  \/ \E w \in {0, 271} :
       /\ Hi(w) = Hi(play_yan.access_param)
       /\ PollsWithin(BrowsePolls, Lo(w))
       /\ WriteParameterLow(Lo(w))
  \/ \E v \in StreamBytes(ReadStreams) : WriteDataIn(1, v, ReadStreams)
  \/ \E h \in {0, 1} : ReadDataOut(h)
  \/ AckIrq

SpecRead == Init /\ [][NextRead]_vars

\* The guest playing a track through the speaker: PLAY_MUSIC "b",
\* STOP_MUSIC and SEEK to position 7, with the scheduler running.
PlayStreams == { <<0, 80, 0, 98>>, <<0, 81>>, <<0, 96, 0, 7>> }

NextPlay ==
  \/ \E w \in {0, 1028} : WriteCntHigh(Hi(w))
  \/ \E w \in {0, 1028} :
       /\ Hi(w) = Hi(play_yan.access_mode)
       /\ SeeksWithin(FewSeeks, Lo(w))
       /\ WriteCntLow(Lo(w))
  \/ \E w \in {0, 271} : WriteParameterHigh(Hi(w))
  \/ \E w \in {0, 271} : Hi(w) = Hi(play_yan.access_param) /\ WriteParameterLow(Lo(w))
  \/ \E v \in StreamBytes(PlayStreams) : WriteDataIn(0, v, PlayStreams)
  \/ IrqTick

SpecPlay == Init /\ [][NextPlay]_vars

\* The guest playing a sound effect around a headphone switch and a SEEK to
\* position 7, with the scheduler running.
SfxStreams == { <<2, 0>>, <<134, 0>>, <<0, 96, 0, 7>> }

NextSfx ==
  \/ \E w \in {0, 1028} : WriteCntHigh(Hi(w))
  \/ \E w \in {0, 1028} :
       /\ Hi(w) = Hi(play_yan.access_mode)
       /\ SeeksWithin(FewSeeks, Lo(w))
       /\ WriteCntLow(Lo(w))
  \/ \E w \in {271} : WriteParameterHigh(Hi(w))
  \/ \E w \in {271} : Hi(w) = Hi(play_yan.access_param) /\ WriteParameterLow(Lo(w))
  \/ \E v \in StreamBytes(SfxStreams) : WriteDataIn(0, v, SfxStreams)
  \/ IrqTick

SpecSfx == Init /\ [][NextSfx]_vars

\* The guest playing a track to its end: PLAY_MUSIC "b" (or, sent without a
\* name, a track that fails to load), UPDATE_AUDIO and SEEK to position 7,
\* fetching audio chunks. The scheduler calls process_play_yan_irq on every
\* emulated cycle, so its step is taken whenever it would change the state.
TrackStreams == { <<0, 80, 0, 98>>, <<129, 0>>, <<0, 96, 0, 7>> }

NextTrack ==
  \/ \E w \in {0, 1028} : WriteCntHigh(Hi(w))
  \/ \E w \in {0, 1028} :
       /\ Hi(w) = Hi(play_yan.access_mode)
       /\ SeeksWithin(FewSeeks, Lo(w))
       /\ WriteCntLow(Lo(w))
  \/ \E w \in {0, 271} : WriteParameterHigh(Hi(w))
  \/ \E w \in {0, 271} :
       /\ Hi(w) = Hi(play_yan.access_param)
       /\ PollsWithin(TrackPolls, Lo(w))
       /\ WriteParameterLow(Lo(w))
  \/ \E v \in StreamBytes(TrackStreams) : WriteDataIn(0, v, TrackStreams)
  \/ IrqTick

SpecTrack == Init /\ [][NextTrack]_vars /\ WF_vars(IrqTick)

\* The guest seeking: SEEK to positions 7 and 5, the volume command that
\* ends a series of seeks, a sound effect to have audio loaded, and the
\* headphone switch.
SeekStreams == { <<0, 96, 0, 7>>, <<0, 96, 0, 5>>, <<0, 128>>, <<2, 0>>, <<134, 0>> }

NextSeek ==
  \/ \E w \in {0, 1028} : WriteCntHigh(Hi(w))
  \/ \E w \in {0, 1028} : Hi(w) = Hi(play_yan.access_mode) /\ WriteCntLow(Lo(w))
  \/ \E w \in {271} : WriteParameterHigh(Hi(w))
  \/ \E w \in {271} : Hi(w) = Hi(play_yan.access_param) /\ WriteParameterLow(Lo(w))
  \/ \E v \in StreamBytes(SeekStreams) : WriteDataIn(0, v, SeekStreams)

SpecSeek == Init /\ [][NextSeek]_vars

\* The guest setting the volume: SET_VOLUME with the lowest, middle and
\* highest volumes of 0..46, and cut short before the volume field.
VolumeStreams == { <<0, 128, 0, v>> : v \in {0, 1, 22, 23, 24, 45, FullVolume} }
VolumeBytes == StreamBytes(VolumeStreams)

NextVolume ==
  \/ \E w \in {0, 1028} : WriteCntHigh(Hi(w))
  \/ \E w \in {0, 1028} : Hi(w) = Hi(play_yan.access_mode) /\ WriteCntLow(Lo(w))
  \/ \E w \in {271} : WriteParameterHigh(Hi(w))
  \/ \E w \in {271} :
       /\ Hi(w) = Hi(play_yan.access_param)
       /\ PollsWithin(BrowsePolls, Lo(w))
       /\ WriteParameterLow(Lo(w))
  \/ \E v \in VolumeBytes : WriteDataIn(0, v, VolumeStreams)

SpecVolume == Init /\ [][NextVolume]_vars

\* The guest switching the control register between 0x0000 and 0x1010 (the
\* parameter written is the high half of a 32-bit parameter) around polls.
ModeStreams == { <<3>> }

NextMode ==
  \/ \E w \in {0, 4112} : WriteCntHigh(Hi(w))
  \/ \E w \in {0, 4112} : Hi(w) = Hi(play_yan.access_mode) /\ WriteCntLow(Lo(w))
  \/ \E w \in {1, 271} : WriteParameterHigh(Hi(w))
  \/ \E w \in {1, 271} :
       /\ Hi(w) = Hi(play_yan.access_param)
       /\ PollsWithin(BrowsePolls, Lo(w))
       /\ WriteParameterLow(Lo(w))
  \/ \E v \in StreamBytes(ModeStreams) \cup {FirmwareByte} : WriteDataIn(0, v, ModeStreams)

SpecMode == Init /\ [][NextMode]_vars

\* The guest booting the device (control 0x0808), polling for completions
\* and acknowledging them: GET_ID3_DATA "b" completes, the opcode 0x0005
\* does not.
PollStreams == { <<0, 64, 0, 98>>, <<0, 5>> }

NextPoll ==
  \/ \E w \in {0, 1028, 2056} : WriteCntHigh(Hi(w))
  \/ \E w \in {0, 1028, 2056} :
       Hi(w) = Hi(play_yan.access_mode) /\ WriteCntLow(Lo(w))
  \/ \E w \in {271} : WriteParameterHigh(Hi(w))
  \/ \E w \in {271} : Hi(w) = Hi(play_yan.access_param) /\ WriteParameterLow(Lo(w))
  \/ \E v \in StreamBytes(PollStreams) : WriteDataIn(0, v, PollStreams)
  \/ IrqTick
  \/ AckIrq

SpecPoll == Init /\ [][NextPoll]_vars

\* The guest fetching audio chunks around PLAY_MUSIC "b", PLAY_SFX, SEEK,
\* HEADPHONE_STATUS and UPDATE_AUDIO.
ChunkStreams == { <<0, 80, 0, 98>>, <<2, 0>>, <<0, 96, 0, 7>>, <<134, 0>>, <<129, 0>> }

NextChunk ==
  \/ \E w \in {0, 1028} : WriteCntHigh(Hi(w))
  \/ \E w \in {0, 1028} :
       /\ Hi(w) = Hi(play_yan.access_mode)
       /\ SeeksWithin(FewSeeks, Lo(w))
       /\ WriteCntLow(Lo(w))
  \/ \E w \in {0, 271} : WriteParameterHigh(Hi(w))
  \/ \E w \in {0, 271} :
       /\ Hi(w) = Hi(play_yan.access_param)
       /\ PollsWithin(BrowsePolls, Lo(w))
       /\ WriteParameterLow(Lo(w))
  \/ \E v \in StreamBytes(ChunkStreams) : WriteDataIn(0, v, ChunkStreams)

SpecChunk == Init /\ [][NextChunk]_vars

\* ------------------------------------------------------------------ claims

StatusHead(py) == <<py.nmp_status_data[1], py.nmp_status_data[2]>>

OpBytes(op) == <<Hi(op), Lo(op)>>

\* C1 (as stated): in every reachable state status_data[0..1] are the high
\* and low byte of the opcode most recently passed to process_nmp_cmd.
C1_StatusAlwaysMirrorsOpcode ==
  bus.last # -1 => StatusHead(play_yan) = OpBytes(bus.last)

\* C1 (amended): status_data[0..1] are the bytes of the opcode most recently
\* dispatched when the dispatcher returns, and they keep that value over every
\* operation except a status / firmware-address access, which overwrites
\* them with the bytes of that access's status value; a data-block access
\* that dispatches nothing leaves them alone.
C1_StatusMirrorsUntilStatusAccess ==
  [][ /\ bus'.disp # << >> => StatusHead(play_yan') = OpBytes(bus'.last)
      /\ (bus'.disp = << >> /\ bus'.acc # "status") =>
           StatusHead(play_yan') = StatusHead(play_yan)
      /\ bus'.acc = "status" =>
           StatusHead(play_yan') =
             IF play_yan'.nmp_ticks # play_yan.nmp_ticks
             THEN OpBytes(play_yan'.nmp_ticks)
             ELSE IF play_yan'.nmp_init_stage # play_yan.nmp_init_stage
             THEN OpBytes(NmpBootData[(play_yan.nmp_init_stage \div 2) + 1])
             ELSE IF play_yan'.firmware_addr = 512
             THEN OpBytes(play_yan.nmp_cmd_status)
             ELSE <<0, 0>> ]_vars

\* C1 witness: an opcode was dispatched and a later 0x10F poll replaced its
\* bytes in status_data[0..1] by the tick counter.
C1_Witness ==
  /\ bus.last = NMP_CLOSE_FIRMWARE_FILE
  /\ bus.acc = "status"
  /\ play_yan.nmp_ticks = 12
  /\ StatusHead(play_yan) = <<0, 12>>

\* C3 (as stated): op_state = PROCESS_CMD implies an even command_stream
\* length and access_mode at the value it has while a command is received.
C3_ProcessCmdEvenAndReceiving ==
  play_yan.op_state = PLAY_YAN_PROCESS_CMD =>
    (Len(play_yan.command_stream) % 2 = 0 /\ play_yan.access_mode = 0)

\* C3 (amended): PROCESS_CMD is entered with command_stream empty,
\* firmware_addr 0 and access_mode 0; in PROCESS_CMD with firmware_addr 0
\* each data-in byte write appends exactly that byte, so the length is odd
\* after an odd number of byte writes, and control-register writes change
\* access_mode without leaving PROCESS_CMD.
C3_ProcessCmdEntryAndGrowth ==
  [][ /\ (play_yan'.op_state = PLAY_YAN_PROCESS_CMD
          /\ play_yan.op_state # PLAY_YAN_PROCESS_CMD) =>
           /\ play_yan'.command_stream = << >>
           /\ play_yan'.firmware_addr = 0
           /\ play_yan'.access_mode = 0
      /\ (play_yan.op_state = PLAY_YAN_PROCESS_CMD /\ bus'.op = "data_in"
          /\ play_yan.firmware_addr = 0) =>
           /\ play_yan'.command_stream = Append(play_yan.command_stream, bus'.value)
           /\ play_yan'.op_state = PLAY_YAN_PROCESS_CMD
      /\ (play_yan.op_state = PLAY_YAN_PROCESS_CMD /\ bus'.op \in {"cnt_high", "cnt_low"}) =>
           play_yan'.op_state = PLAY_YAN_PROCESS_CMD ]_vars

\* C3 witness: three bytes were written in PROCESS_CMD and the control
\* register then took the terminating value 0x0404.
C3_Witness ==
  /\ play_yan.op_state = PLAY_YAN_PROCESS_CMD
  /\ Len(play_yan.command_stream) = 3
  /\ play_yan.access_mode = 1028
  /\ bus.op = "cnt_low"

\* Every firmware byte but the one at address a is the same in f and g.
SameExceptAt(f, g, a) ==
  /\ DOMAIN g = DOMAIN f \cup {a}
  /\ \A x \in DOMAIN f \ {a} : g[x] = f[x]

FirmwareStore ==
  /\ play_yan.firmware_addr # 0
  /\ SameExceptAt(play_yan.firmware, play_yan'.firmware, play_yan.firmware_addr)
  /\ play_yan'.firmware[play_yan.firmware_addr] = bus'.value
  /\ play_yan'.firmware_addr = play_yan.firmware_addr + 1
  /\ play_yan'.command_stream = play_yan.command_stream

StreamAppend ==
  /\ play_yan.firmware_addr = 0
  /\ play_yan'.command_stream = Append(play_yan.command_stream, bus'.value)
  /\ play_yan'.firmware = play_yan.firmware
  /\ play_yan'.firmware_addr = 0

BlockLen(py) ==
  CASE py.cmd \in {NMP_START_FILE_LIST, NMP_CONTINUE_FILE_LIST} -> ListBlockLen
    [] py.cmd = NMP_GET_ID3_DATA -> Id3BlockLen
    [] py.cmd = NMP_UPDATE_AUDIO /\ py.update_audio_stream -> py.audio_buffer_size + 2
    [] OTHER -> 0

\* C2 (as stated): in every reachable state where op_state = GET_SD_DATA,
\* card_data is non-empty, whatever the opcode was at the data-block access.
C2_CardDataNonEmpty ==
  play_yan.op_state = PLAY_YAN_GET_SD_DATA => play_yan.card_data # << >>

\* C2 (amended): a data-block access enters GET_SD_DATA and leaves in
\* card_data a block of 528 bytes for a list command, 272 bytes for
\* GET_ID3_DATA, audio_buffer_size + 2 bytes for UPDATE_AUDIO while
\* update_audio_stream is set, and no bytes at all for every other opcode
\* (cmd = 0, an opcode without a block, UPDATE_AUDIO while update_audio_stream
\* is clear); no other operation changes card_data.
C2_CardDataLengthByOpcode ==
  [][ /\ bus'.acc = "data" =>
           /\ play_yan'.op_state = PLAY_YAN_GET_SD_DATA
           /\ Len(play_yan'.card_data) = BlockLen(play_yan)
      /\ bus'.acc # "data" => play_yan'.card_data = play_yan.card_data ]_vars

\* C2 witness: after an ID3 block was built, a data-block access with
\* cmd = 0 (CLOSE_FIRMWARE_FILE cleared it) left GET_SD_DATA with no block.
C2_Witness ==
  /\ bus.acc = "data"
  /\ play_yan.op_state = PLAY_YAN_GET_SD_DATA
  /\ play_yan.cmd = 0
  /\ play_yan.nmp_title # << >>
  /\ play_yan.card_data = << >>

\* The opcodes whose dispatch leaves a 0x4000-tagged completion status.
TaggedOpcodes ==
  { NMP_START_FILE_LIST, NMP_CONTINUE_FILE_LIST, NMP_SET_DIR, NMP_GET_ID3_DATA,
    NMP_PLAY_MUSIC, NMP_STOP_MUSIC, NMP_PAUSE, NMP_RESUME, NMP_SEEK,
    NMP_CHECK_FIRMWARE_FILE, NMP_READ_FIRMWARE_FILE, NMP_CLOSE_FIRMWARE_FILE }

\* C10 (as stated): when the dispatch of a completion-tagged command has
\* returned, cmd_status is that command's own opcode OR 0x4000 and
\* status_data[0..1] are that opcode's big-endian bytes.
C10_TaggedStatusIsOwnOpcode ==
  (bus.op = "cnt_low" /\ bus.disp # << >> /\ bus.disp[1] \in TaggedOpcodes) =>
     /\ play_yan.nmp_cmd_status = bus.disp[1] + 16384
     /\ StatusHead(play_yan) = OpBytes(bus.disp[1])

Dispatched(d, op) == \E i \in 1..Len(d) : d[i] = op

ListOpcodes == {NMP_START_FILE_LIST, NMP_CONTINUE_FILE_LIST}

\* C5: over every operation nmp_entry_count is left unchanged, except that
\* the dispatch of CONTINUE_FILE_LIST increases it by exactly 1 and the
\* dispatch of START_FILE_LIST (reset to 0, then the increment) leaves it at
\* 1; so it decreases only inside START_FILE_LIST.
C5_EntryCountOnlyResetByStart ==
  [][ LET d == bus'.disp
          before == play_yan.nmp_entry_count
          after == play_yan'.nmp_entry_count
      IN /\ Dispatched(d, NMP_START_FILE_LIST) => after = 1
         /\ (d = <<NMP_CONTINUE_FILE_LIST>>) => after = before + 1
         /\ (\A i \in 1..Len(d) : d[i] \notin ListOpcodes) => after = before
         /\ after < before => Dispatched(d, NMP_START_FILE_LIST) ]_vars

\* C5 witness: after a SET_DIR into /m/a and a second poll START_FILE_LIST
\* was dispatched again and left the cursor at 1.
C5_Witness ==
  /\ bus.disp = <<NMP_START_FILE_LIST>>
  /\ play_yan.nmp_entry_count = 1
  /\ play_yan.nmp_ticks = 12
  /\ play_yan.current_dir = DirA

\* Entry k (from 0) of the snapshot: folders first, then music files.
SnapshotEntry(py, k) ==
  IF k < Len(py.folders) THEN py.folders[k + 1]
  ELSE py.music_files[k - Len(py.folders) + 1]

SnapshotSize(py) == Len(py.folders) + Len(py.music_files)

\* C6: the k-th list command since START_FILE_LIST (k = nmp_entry_count after
\* it) reports 'more data' (status bytes 2..3 = 0,0) for k <= N and
\* list-complete (0,1) for k = N + 1 and later; the list data-block access
\* after the k-th command, k <= N, delivers entry k - 1 of the snapshot,
\* folders[k-1] flagged 1 for k <= F and music_files[k-1-F] flagged 2 after
\* that; and the snapshot changes only in START_FILE_LIST.
C6_ListDeliversFoldersThenFiles ==
  [][ LET d == bus'.disp
          py == play_yan'
          k == py.nmp_entry_count
      IN /\ (Len(d) = 1 /\ d[1] \in ListOpcodes) =>
              <<py.nmp_status_data[3], py.nmp_status_data[4]>> =
                 IF k - 1 >= SnapshotSize(py) THEN <<0, 1>> ELSE <<0, 0>>
         /\ (bus'.acc = "data" /\ play_yan.cmd \in ListOpcodes
             /\ k >= 1 /\ k <= SnapshotSize(py)) =>
              /\ py.card_data =
                   ListBlock(SnapshotEntry(py, k - 1), k - 1 < Len(py.folders))
              /\ py.nmp_data_index = 0
              /\ k = play_yan.nmp_entry_count
         /\ ~Dispatched(d, NMP_START_FILE_LIST) =>
              /\ py.folders = play_yan.folders
              /\ py.music_files = play_yan.music_files ]_vars

\* C6 witness: in the root directory (one folder, two files) the third list
\* command was followed by a data-block access that delivered the second
\* file, flagged as a file.
C6_Witness ==
  /\ bus.acc = "data"
  /\ play_yan.cmd = NMP_CONTINUE_FILE_LIST
  /\ play_yan.nmp_entry_count = 3
  /\ Len(play_yan.folders) = 1
  /\ Len(play_yan.music_files) = 2
  /\ play_yan.card_data = ListBlock(<<99>>, FALSE)
  /\ play_yan.nmp_status_data[4] = 0

\* C7 (as stated): a list data-block access made while the entry cursor is
\* exhausted builds an all-zero 528-byte block and indexes neither folders
\* nor music_files out of bounds.
C7_ExhaustedCursorAllZero ==
  (/\ bus.acc = "data"
   /\ play_yan.cmd \in ListOpcodes
   /\ play_yan.nmp_entry_count - 1 >= SnapshotSize(play_yan)) =>
     /\ play_yan.card_data = Zeros(ListBlockLen)
     /\ fault # "vector_oob"

\* C8 (as stated): SET_DIR ".." never reads or pops a character from an
\* empty current_dir.
C8_ParentNeverUnderflows ==
  (/\ bus.disp = <<NMP_SET_DIR>>
   /\ ParseName(play_yan.command_stream) = <<Dot, Dot>>) =>
     fault # "string_underflow"

\* C9: a data-out read returns card_data[i] in GET_SD_DATA when
\* i < card_data.size() and status_data[i] otherwise when i < 16, advancing
\* the cursor i by 1; in every other case it returns 0 and leaves the cursor
\* alone; nothing but the cursor changes; and a status access puts the cursor
\* at 0, so the 16 reads after it return status_data[0..15] in order.
C9_DataOutRead ==
  [][ LET i == play_yan.nmp_data_index
          sd == play_yan.op_state = PLAY_YAN_GET_SD_DATA
          hit == IF sd THEN i < Len(play_yan.card_data) ELSE i < 16
      IN /\ bus'.op = "data_out" =>
              /\ result' = IF ~hit THEN 0
                           ELSE IF sd THEN play_yan.card_data[i + 1]
                           ELSE play_yan.nmp_status_data[i + 1]
              /\ play_yan' = [play_yan EXCEPT
                                !.nmp_data_index = IF hit THEN i + 1 ELSE i]
         /\ bus'.acc = "status" => play_yan'.nmp_data_index = 0 ]_vars

\* C9 witness: outside GET_SD_DATA the seventeenth read after a 0x10F poll
\* returned 0 with the cursor left at 16, status_data[1] being non-zero.
C9_Witness ==
  /\ bus.op = "data_out"
  /\ play_yan.op_state = PLAY_YAN_PROCESS_CMD
  /\ play_yan.nmp_data_index = 16
  /\ play_yan.nmp_status_data[2] = 6
  /\ result = 0

\* C11: when the dispatcher returns from PLAY_MUSIC or STOP_MUSIC the
\* interrupt intent of the previous playback is gone: STOP_MUSIC leaves
\* nmp_manual_cmd and irq_delay 0, PLAY_MUSIC leaves them 0 in speaker mode
\* and at the headphone start-up values (UPDATE_AUDIO, 10) in headphone
\* mode; and no scheduler call that follows the dispatch of PLAY_MUSIC runs
\* a STOP_MUSIC.
C11_PlayStopCancelPending ==
  [][
     /\ bus'.disp = <<NMP_STOP_MUSIC>> =>
          play_yan'.nmp_manual_cmd = 0 /\ play_yan'.irq_delay = 0
     /\ bus'.disp = <<NMP_PLAY_MUSIC>> =>
          IF ext_audio'.use_headphones
          THEN play_yan'.nmp_manual_cmd = NMP_UPDATE_AUDIO /\ play_yan'.irq_delay = 10
          ELSE play_yan'.nmp_manual_cmd = 0 /\ play_yan'.irq_delay = 0
     /\ (bus.last = NMP_PLAY_MUSIC /\ bus'.op = "irq") =>
          ~Dispatched(bus'.disp, NMP_STOP_MUSIC)
  ]_vars

\* C12: at every manual interrupt request (SEEK, PLAY_SFX, the timestamp
\* trigger of an audio-chunk access) irq_delay is 0 when nmp_manual_irq is
\* raised, and when the request has returned nmp_manual_irq is false and no
\* delayed interrupt is left pending for the manual command (UPDATE_AUDIO).
C12_ManualIrqExclusive ==
  bus.raised # << >> =>
    /\ \A i \in 1..Len(bus.raised) : bus.raised[i] = 0
    /\ ~play_yan.nmp_manual_irq
    /\ ~(play_yan.irq_delay # 0 /\ play_yan.nmp_manual_cmd = NMP_UPDATE_AUDIO)

\* Both playing flags are false.
PlaybackEnded == ~play_yan.is_music_playing /\ ~play_yan.is_media_playing

\* The last trackbar update of the step computed progress of 100 or more.
FullProgress(b) == b.bar # << >> /\ b.bar[Len(b.bar)] >= 100

\* C13 (as stated): while a track is playing, if UPDATE_AUDIO keeps being
\* issued and the scheduler keeps running, playback ends: progress reaches
\* 100, STOP_MUSIC is scheduled and both playing flags become false, for
\* every music_length.
C13_PlaybackAlwaysEnds ==
  ([]<>Dispatched(bus.disp, NMP_UPDATE_AUDIO)) =>
    [](play_yan.is_music_playing => <>PlaybackEnded)

\* C13 (amended): a trackbar update computes progress 100 or more exactly
\* when music_length is 2 or more and the elapsed seconds reached
\* music_length - 1; it then schedules STOP_MUSIC with irq_delay 1 and
\* leaves the playing flags set, and otherwise leaves UPDATE_AUDIO as the
\* manual command; the scheduler call that finds STOP_MUSIC scheduled with
\* irq_delay 1 runs it, which clears both playing flags and the intent.
C13_StopAtFullProgress ==
  [][
     /\ bus'.bar # << >> =>
          /\ FullProgress(bus') <=>
               /\ play_yan'.music_length >= 2
               /\ play_yan'.tracker_update_size >= play_yan'.music_length - 1
          /\ IF FullProgress(bus')
             THEN /\ play_yan'.nmp_manual_cmd = NMP_STOP_MUSIC
                  /\ play_yan'.irq_delay = 1
                  /\ play_yan'.is_music_playing
             ELSE play_yan'.nmp_manual_cmd = NMP_UPDATE_AUDIO
     /\ ( /\ play_yan.nmp_manual_cmd = NMP_STOP_MUSIC
          /\ play_yan.irq_delay = 1
          /\ play_yan.op_state # PLAY_YAN_BOOT_SEQUENCE
          /\ bus'.op = "irq" ) =>
          /\ bus'.disp = <<NMP_STOP_MUSIC>>
          /\ ~play_yan'.is_music_playing /\ ~play_yan'.is_media_playing
          /\ play_yan'.nmp_manual_cmd = 0 /\ play_yan'.irq_delay = 0
  ]_vars

\* C13 witness: the scheduler ran the STOP_MUSIC that a trackbar update
\* scheduled for the track with the fabricated duration 2.
C13_Witness ==
  /\ bus.op = "irq"
  /\ bus.disp = <<NMP_STOP_MUSIC>>
  /\ play_yan.music_length = 2
  /\ PlaybackEnded

\* The step dispatches SEEK with a position field.
SeekStep ==
  /\ bus'.op = "cnt_low"
  /\ bus'.disp # << >>
  /\ bus'.disp[1] = NMP_SEEK
  /\ Len(play_yan.command_stream) >= 4

\* The playback cursor of the current output and its rate unit.
Cursor(py, ea) == IF ea.use_headphones THEN ea.sample_pos ELSE py.audio_sample_index

RateUnit(py, ea) == IF ea.use_headphones THEN py.audio_sample_rate ELSE SpeakerRate

\* C14: every SEEK with a position field counts itself. While the direction
\* is unknown it moves no cursor, records its position p and, when the
\* recorded position and p are both non-zero, fixes the direction: rewind
\* for p below the recorded one, fast-forward otherwise. Once the direction
\* is known a SEEK moves the cursor of the current output by
\* rate_unit * (2 + seek_count / 10), seek_count counting this SEEK, down to
\* 0 at least on rewind, and leaves the direction and the other cursor.
C14_SeekDirectionAndStep ==
  [][SeekStep =>
       LET p == play_yan.command_stream[4]
           step == RateUnit(play_yan, ext_audio) * (2 + (play_yan'.nmp_seek_count \div 10))
           old == Cursor(play_yan, ext_audio)
       IN /\ play_yan'.nmp_seek_count = play_yan.nmp_seek_count + 1
          /\ ext_audio'.use_headphones = ext_audio.use_headphones
          /\ IF play_yan.nmp_seek_dir = 255
             THEN /\ play_yan'.audio_sample_index = play_yan.audio_sample_index
                  /\ ext_audio'.sample_pos = ext_audio.sample_pos
                  /\ play_yan'.nmp_seek_pos = p
                  /\ play_yan'.nmp_seek_dir =
                       IF play_yan.nmp_seek_pos # 0 /\ p # 0
                       THEN (IF p < play_yan.nmp_seek_pos THEN 0 ELSE 1)
                       ELSE 255
             ELSE /\ play_yan'.nmp_seek_dir = play_yan.nmp_seek_dir
                  /\ Cursor(play_yan', ext_audio') =
                       IF play_yan.nmp_seek_dir = 0
                       THEN (IF old - step < 0 THEN 0 ELSE old - step)
                       ELSE old + step
                  /\ ext_audio.use_headphones =>
                       play_yan'.audio_sample_index = play_yan.audio_sample_index
                  /\ ~ext_audio.use_headphones =>
                       ext_audio'.sample_pos = ext_audio.sample_pos]_vars

\* C14 witness: the tenth SEEK of a fast-forward series has moved the
\* speaker cursor by 3 units after seven moves of 2 units.
C14_Witness ==
  /\ bus.op = "cnt_low"
  /\ bus.disp # << >> /\ bus.disp[1] = NMP_SEEK
  /\ play_yan.nmp_seek_count = 10
  /\ play_yan.nmp_seek_dir = 1
  /\ ~ext_audio.use_headphones
  /\ play_yan.audio_sample_index = 17 * SpeakerRate

\* The volume conversion over 0..46: within 0..63, non-decreasing, and
\* 0, 31, 63 for 0, 23, 46.
VolumeLaw ==
  /\ \A v \in 0..FullVolume : VolumeScale(v) \in 0..FullOutput
  /\ \A v \in 0..(FullVolume - 1) : VolumeScale(v) <= VolumeScale(v + 1)
  /\ VolumeScale(0) = 0 /\ VolumeScale(23) = 31 /\ VolumeScale(FullVolume) = FullOutput

\* C15: SET_VOLUME with a stream of 4 bytes or more and a volume v in 0..46
\* stores v and sets the external volume to v * 63 / 46 with the fraction
\* dropped, a value in 0..63 that never decreases as v grows; with a shorter
\* stream it leaves both volume fields as they were.
C15_VolumeConversion ==
  [][/\ VolumeLaw
     /\ bus'.disp = <<NMP_SET_VOLUME>> =>
          IF Len(play_yan.command_stream) >= 4
          THEN LET v == play_yan.command_stream[4]
               IN /\ v \in 0..FullVolume
                  /\ play_yan'.volume = v
                  /\ ext_audio'.volume = (v * FullOutput) \div FullVolume
                  /\ ext_audio'.volume \in 0..FullOutput
          ELSE /\ play_yan'.volume = play_yan.volume
               /\ ext_audio'.volume = ext_audio.volume]_vars

\* C15 witness: SET_VOLUME 23 has set the external volume to 31, and a
\* SET_VOLUME cut short after its opcode has left it there.
C15_Witness ==
  /\ bus.disp = <<NMP_SET_VOLUME>>
  /\ Len(play_yan.command_stream) = 2
  /\ play_yan.volume = 23
  /\ ext_audio.volume = 31

\* C16: two HEADPHONE_STATUS commands in a row, the source rate fixed,
\* return use_headphones to its value before the first, and starting in
\* speaker mode they leave audio_sample_index within rounding tolerance
\* (taken generously: one audio chunk) of its value before the first. The
\* switch to headphones leaves audio_sample_index alone, so before the second
\* command it still holds the value from before the first.
C16_HeadphoneRoundTrip ==
  [][(bus.last = NMP_HEADPHONE_STATUS /\ bus'.disp = <<NMP_HEADPHONE_STATUS>>) =>
       /\ ext_audio'.use_headphones = ~ext_audio.use_headphones
       /\ ext_audio.use_headphones =>
            (play_yan'.audio_sample_index - play_yan.audio_sample_index)
              \in -(AudioBufferSize \div 2)..(AudioBufferSize \div 2)]_vars

\* The step completes the write of 0x010F to the parameter register with
\* the control register at 0x0000.
PollWrite ==
  /\ bus'.op = "parameter_low"
  /\ bus'.value = 15
  /\ Hi(play_yan.access_param) = 1
  /\ play_yan.access_mode = 0

\* The device accepts a command: data-in bytes are appended to an empty stream.
Idle(py) ==
  /\ py.op_state = PLAY_YAN_PROCESS_CMD
  /\ py.command_stream = << >>
  /\ py.firmware_addr = 0

\* C17 (as stated): from every reachable state, writing 0x0000 to the
\* control register and then 0x010F to the parameter register leaves
\* op_state PROCESS_CMD, command_stream empty and firmware_addr 0.
C17_PollAlwaysResets == [][PollWrite => Idle(play_yan')]_vars

\* C17 (amended): with the control register at 0x0000, the write of 0x010F
\* leaves the device accepting a command when the upper 16 bits of
\* access_param are zero; when a parameter write under 0x1010 left them
\* non-zero it is an access to the address access_param: firmware_addr
\* becomes twice that value, op_state and command_stream stay as they were.
\* Either way access_param is 0 afterwards, so a second write of 0x010F
\* finds the upper bits zero.
C17_PollResetsWithNarrowParam ==
  [][PollWrite =>
       LET param == ((play_yan.access_param \div 256) * 256) + 15
       IN /\ play_yan'.access_param = 0
          /\ IF play_yan.access_param \div 65536 = 0
             THEN Idle(play_yan')
             ELSE /\ play_yan'.firmware_addr = 2 * param
                  /\ play_yan'.op_state = play_yan.op_state
                  /\ play_yan'.command_stream = play_yan.command_stream]_vars

\* C17 witness: 0x010F written after 0x0001 was written under 0x1010: the
\* device is at firmware address 2 * 0x1010F and accepts no command.
C17_Witness ==
  /\ bus.op = "parameter_low"
  /\ bus.value = 15
  /\ bus.acc = "status"
  /\ play_yan.access_mode = 0
  /\ play_yan.firmware_addr = 2 * (65536 + 271)
  /\ ~Idle(play_yan)

\* The case labels of the switch in process_nmp_cmd.
RecognizedOpcodes ==
  {NMP_START_FILE_LIST, NMP_CONTINUE_FILE_LIST, NMP_SET_DIR, NMP_GET_ID3_DATA,
   NMP_PLAY_MUSIC, NMP_STOP_MUSIC, NMP_PAUSE, NMP_RESUME, NMP_SEEK,
   NMP_SET_VOLUME, NMP_PLAY_SFX, NMP_CHECK_FIRMWARE_FILE,
   NMP_READ_FIRMWARE_FILE, NMP_CLOSE_FIRMWARE_FILE, NMP_SLEEP, NMP_WAKE,
   NMP_INIT, NMP_UPDATE_AUDIO, NMP_HEADPHONE_STATUS}

\* What a command other than the list, directory and playback commands
\* leaves alone.
DeviceSetting(py) ==
  <<py.op_state, py.current_dir, py.folders, py.music_files, py.nmp_entry_count,
    py.is_music_playing, py.is_media_playing, py.irq_delay, py.nmp_manual_cmd>>

\* C18: a dispatch of an opcode that is no case label leaves
\* nmp_valid_command false and nmp_cmd_status 0, the opcode bytes in
\* nmp_status_data[0..1] and zeros in nmp_status_data[2..15], and leaves
\* op_state, current_dir, the folder / file snapshot, nmp_entry_count, the
\* playing flags, irq_delay and nmp_manual_cmd as they were; a 0x10F poll that
\* finds it the most recent dispatch raises no interrupt.
C18_UnknownOpcodeAbsorbed ==
  [][
     /\ (Len(bus'.disp) = 1 /\ bus'.disp[1] \notin RecognizedOpcodes) =>
          /\ ~play_yan'.nmp_valid_command
          /\ play_yan'.nmp_cmd_status = 0
          /\ play_yan'.nmp_status_data =
               [i \in 1..StatusLen |-> IF i = 1 THEN Hi(bus'.disp[1])
                                       ELSE IF i = 2 THEN Lo(bus'.disp[1]) ELSE 0]
          /\ DeviceSetting(play_yan') = DeviceSetting(play_yan)
          /\ reg_if' = reg_if
     /\ (play_yan'.nmp_ticks # play_yan.nmp_ticks /\ bus.last \notin RecognizedOpcodes) =>
          reg_if' = reg_if
  ]_vars

\* C18 witness: the unknown opcode 0x0005 was dispatched while a sound
\* effect plays: the effect still plays and no completion is pending.
C18_Witness ==
  /\ bus.op = "cnt_low"
  /\ bus.disp = <<5>>
  /\ play_yan.nmp_status_data[2] = 5
  /\ play_yan.is_media_playing
  /\ play_yan.nmp_cmd_status = 0
  /\ ~play_yan.nmp_valid_command

\* The commands that report no completion.
UntrackedOpcodes == {NMP_SET_VOLUME, NMP_PLAY_SFX}

\* C19: a guest dispatch of SET_VOLUME or PLAY_SFX from a state where
\* nmp_valid_command is false returns with nmp_valid_command false, and the
\* 0x10F poll that clears the stream of such a command finds
\* nmp_valid_command false, so it raises no completion interrupt.
C19_NoCompletionForVolumeAndSfx ==
  [][
     /\ ( /\ bus'.op = "cnt_low"
          /\ bus'.disp # << >>
          /\ bus'.disp[1] \in UntrackedOpcodes
          /\ ~play_yan.nmp_valid_command ) =>
          ~play_yan'.nmp_valid_command
     /\ ( /\ play_yan'.nmp_ticks # play_yan.nmp_ticks
          /\ bus.last \in {NMP_SET_VOLUME, NMP_UPDATE_AUDIO}
          /\ Len(play_yan.command_stream) >= 2
          /\ (play_yan.command_stream[1] * 256) + play_yan.command_stream[2]
               \in UntrackedOpcodes ) =>
          ~play_yan.nmp_valid_command
  ]_vars

\* C19 witness: PLAY_SFX was dispatched (it ran UPDATE_AUDIO through the
\* manual interrupt) and left no completion pending.
C19_Witness ==
  /\ bus.op = "cnt_low"
  /\ bus.disp = <<NMP_PLAY_SFX, NMP_UPDATE_AUDIO>>
  /\ play_yan.is_media_playing
  /\ ~play_yan.nmp_valid_command

\* C20: between two consecutive 0x10F polls the control-register path
\* invokes the dispatcher at most once, however often the low byte is
\* written under 0x0404; a low-byte write that finds fewer than 2 bytes in
\* command_stream invokes nothing and leaves cmd as it was.
C20_DispatchedOnce ==
  [][ bus'.op = "cnt_low" =>
        /\ bus'.disp # << >> => ~bus.done
        /\ Len(play_yan.command_stream) < 2 =>
             (bus'.disp = << >> /\ play_yan'.cmd = play_yan.cmd) ]_vars

\* C21: an access with access_param = 0x10F sets the Game Pak interrupt
\* flag exactly when nmp_valid_command was set on entry, clears
\* nmp_valid_command, and leaves op_state PROCESS_CMD, command_stream empty
\* and firmware_addr 0; a poll that follows a poll with no dispatch in
\* between leaves the flag as it was.
C21_CompletionDeliveredOnce ==
  [][ ( /\ bus'.op = "parameter_low"
        /\ play_yan.access_mode = 0
        /\ ((play_yan.access_param \div 256) * 256) + bus'.value = 271 ) =>
        /\ reg_if' = (reg_if \/ play_yan.nmp_valid_command)
        /\ ~play_yan'.nmp_valid_command
        /\ Idle(play_yan')
        /\ (~bus.done /\ play_yan.nmp_ticks > 0) => reg_if' = reg_if ]_vars

\* C21 witness: the completion of GET_ID3_DATA was delivered by one poll and
\* acknowledged; a second poll with no dispatch in between has left the
\* flag clear.
C21_Witness ==
  /\ bus.op = "parameter_low"
  /\ bus.acc = "status"
  /\ bus.last = NMP_GET_ID3_DATA
  /\ play_yan.nmp_ticks = 18
  /\ ~bus.done
  /\ ~reg_if
  /\ ~play_yan.nmp_valid_command

\* C22: op_state becomes BOOT_SEQUENCE only by the write that completes
\* the control register's low byte with access_mode 0x0808 while op_state
\* is INIT, and that write sets irq_delay to 30; no step returns op_state
\* to INIT, and a 0x0808 write that finds op_state other than INIT leaves
\* op_state and irq_delay as they were.
C22_BootsOnce ==
  [][
     /\ (play_yan'.op_state = PLAY_YAN_BOOT_SEQUENCE
           /\ play_yan.op_state # PLAY_YAN_BOOT_SEQUENCE) =>
          /\ bus'.op = "cnt_low"
          /\ play_yan'.access_mode = 2056
          /\ play_yan.op_state = PLAY_YAN_INIT
     /\ (bus'.op = "cnt_low" /\ play_yan'.access_mode = 2056) =>
          IF play_yan.op_state = PLAY_YAN_INIT
          THEN /\ play_yan'.op_state = PLAY_YAN_BOOT_SEQUENCE
               /\ play_yan'.irq_delay = BootDelay
          ELSE /\ play_yan'.op_state = play_yan.op_state
               /\ play_yan'.irq_delay = play_yan.irq_delay
     /\ play_yan.op_state # PLAY_YAN_INIT => play_yan'.op_state # PLAY_YAN_INIT
  ]_vars

\* C22 witness: the device was booted, the scheduler has counted the boot
\* delay down to 29, a poll has moved the device to PROCESS_CMD, and 0x0808
\* was written again: the delay is still 29.
C22_Witness ==
  /\ bus.op = "cnt_low"
  /\ play_yan.access_mode = 2056
  /\ play_yan.op_state = PLAY_YAN_PROCESS_CMD
  /\ play_yan.irq_delay = BootDelay - 1

\* The step is a data access that produced an audio chunk (lines 826-829).
ChunkStep ==
  /\ bus'.op = "parameter_low"
  /\ bus'.acc = "data"
  /\ play_yan.cmd = NMP_UPDATE_AUDIO
  /\ play_yan.update_audio_stream

\* C23 (as stated): a chunk with an odd frame count after the increment
\* leaves audio_sample_index and ext_audio.last_pos unchanged, a chunk with
\* an even one advances audio_sample_index by audio_buffer_size / 2;
\* audio_sample_index is even at the start of every chunk, and every output
\* byte lies inside the block of audio_buffer_size + 2 bytes.
C23_ChunksAlternate ==
  [][ ChunkStep =>
        /\ play_yan.audio_sample_index % 2 = 0
        /\ Len(play_yan'.card_data) = play_yan.audio_buffer_size + 2
        /\ IF (play_yan.audio_frame_count + 1) % 2 = 1
           THEN /\ play_yan'.audio_sample_index = play_yan.audio_sample_index
                /\ ext_audio'.last_pos = ext_audio.last_pos
           ELSE play_yan'.audio_sample_index =
                  play_yan.audio_sample_index + (play_yan.audio_buffer_size \div 2) ]_vars

\* C23 (amended): audio_sample_index is even in every state. A chunk
\* access of a track with a sample rate and an odd frame count after the
\* increment leaves audio_sample_index and ext_audio.last_pos unchanged,
\* one with an even count advances audio_sample_index by
\* audio_buffer_size / 2, and every byte it writes lies inside the block of
\* audio_buffer_size + 2 bytes; with audio_sample_rate 0 (no track loaded)
\* a chunk access of either parity only counts the frame and returns a block
\* of zeros.
C23_ChunksAlternateWithRate ==
  [][ /\ play_yan'.audio_sample_index % 2 = 0
      /\ ChunkStep =>
           LET n == play_yan.audio_buffer_size \div 2
               size == play_yan.audio_buffer_size + 2
           IN /\ Len(play_yan'.card_data) = size
              /\ IF play_yan.audio_sample_rate = 0
                 THEN /\ play_yan'.audio_sample_index = play_yan.audio_sample_index
                      /\ ext_audio'.last_pos = ext_audio.last_pos
                      /\ play_yan'.card_data = Zeros(size)
                 ELSE /\ \A k \in 0..(n - 1) :
                           PassOffset(play_yan.audio_sample_index, k) \in 0..(size - 1)
                      /\ IF (play_yan.audio_frame_count + 1) % 2 = 1
                         THEN /\ play_yan'.audio_sample_index = play_yan.audio_sample_index
                              /\ ext_audio'.last_pos = ext_audio.last_pos
                         ELSE play_yan'.audio_sample_index = play_yan.audio_sample_index + n
    ]_vars

\* C23 witness: the right-channel chunk of the loaded track "b" has moved
\* the cursor from 0 to 576, set last_pos and requested the timestamp
\* update; the left-channel chunk before it had left both alone.
C23_Witness ==
  /\ bus.op = "parameter_low"
  /\ bus.acc = "data"
  /\ play_yan.audio_sample_rate = 32768
  /\ play_yan.audio_buffer_size = AudioBufferSize
  /\ bus.raised = <<0>>
  /\ play_yan.audio_sample_index = AudioBufferSize \div 2
  /\ ext_audio.last_pos > 0
  /\ Len(play_yan.card_data) = AudioBufferSize + 2

\* C24: while the external audio line is marked playing, its channel count
\* and frequency are audio_channels and audio_sample_rate of the track
\* loaded most recently, and both are non-zero.
C24_ExtAudioMatchesTrack ==
  ext_audio.playing =>
    /\ ext_audio.channels = play_yan.audio_channels
    /\ ext_audio.frequency = play_yan.audio_sample_rate
    /\ play_yan.audio_channels # 0
    /\ play_yan.audio_sample_rate # 0

====
